---- MODULE Spec2Model ----
(***************************************************************************)
(* Model of the Qualcomm diag protocol engine of                           *)
(* src/edlclient/Tools/qc_diag.py (class QualcommDiagClient): the factory  *)
(* image export (efsread), the EFS2 file and directory operations and the  *)
(* NV item store, run against a device that answers each request.          *)
(*                                                                         *)
(* Byte strings are sequences of 0..255.  Python's offsets are 0-based;    *)
(* the operators Slice, SliceEnd, U and U32 take 0-based offsets.          *)
(***************************************************************************)
EXTENDS Integers, Sequences, FiniteSets, TLC

VARIABLES
    pc,         \* position of the running operation ("idle", "done", "fault", or a step)
    op,         \* the operation that is running or has just ended
    efsmethod,  \* local efsmethod of the running operation (0: not yet selected)
    sent,       \* requests handed to send() by the running operation, in order
    heads,      \* per request of sent: the sending step, its response's length and leading bytes
    resp,       \* the last response returned by send()
    arg,        \* arguments of the running operation
    result,     \* return value of the operation that ended (see Ret*)
    fefs,       \* efsread: FactImageReadInfo cursor
    fh,         \* efsread: FactoryHeader fields used by the export
    total,      \* efsread: total page count
    page,       \* efsread: loop variable of the page loop
    efserr,     \* efsread: efserr flag
    outfile,    \* efsread: bytes written to the output file
    fileOpen,   \* efsread: the output file handle is open
    dirp,       \* efslistdir: directory handle
    seqno,      \* efslistdir: loop variable of the readdir loop
    info,       \* efslistdir: the entries listed so far (padded names)
    fdata,      \* efsreadfile / efswritefile: file descriptor
    size,       \* efsreadfile / efswritefile: size reported by fstat
    offset,     \* efsreadfile: offset of the next read
    dataleft,   \* efsreadfile: bytes still to read
    num_bytes,  \* efsreadfile / efswritefile: the value returned
    localfile,  \* efsreadfile: bytes written to the local file
    caller,     \* read_nvitem: the operation that called it ("none": the user)
    hist,       \* the last calls of the NV operations, with arguments and results
    nvStore,    \* device: the 128-byte raw field stored for each NV item
    sessMethod, \* history: the method byte selected by the first operation of the
                \* session that selected one (0: none yet)
    opsLeft,    \* how many more operations the session may start
    odd,        \* device: how many more non-nominal responses it may give
    devMethods, \* device: the EFS method bytes it answers to
    devHdr,     \* device: <<block_size, block_count, page_size>> of its factory header
    devEntries, \* device: number of entries of the directory
    devSize,    \* device: size of the file
    devMode,    \* device: mode of the file
    nvSub,      \* device: the raw field stored for each (item, index) sub-item
    index,      \* write_imei: loop variable (which IMEI is being written)
    pos,        \* backup_nvitems: loop variable (the id being read)
    nvitems,    \* backup_nvitems: the list that is written to the backup file
    errors,     \* backup_nvitems: the ids whose failure text is in _errors, in order
    devScan,    \* device: how it answers reads of ids it stores no value for
    connected   \* transport: the channel to the device is open

factVars == <<fefs, fh, total, page, efserr, outfile, fileOpen>>

dirVars == <<dirp, seqno, info>>

fileVars == <<fdata, size, offset, dataleft, num_bytes, localfile>>

sessVars == <<sessMethod, opsLeft>>

devVars == <<devMethods, devHdr, devEntries, devSize, devMode, connected>>

nvVars == <<caller, hist, nvStore>>

subVars == <<nvSub, index>>

bkVars == <<pos, nvitems, errors, devScan>>

vars == <<pc, op, arg, efsmethod, sent, heads, resp, result, odd, factVars, dirVars,
          fileVars, sessVars, devVars, nvVars, subVars, bkVars>>

\* what the steps of efsread leave alone
factFrame == <<dirVars, fileVars, sessMethod, devVars, nvVars, subVars, bkVars>>

\* what the steps of the EFS file and directory operations leave alone
efsFrame == <<factVars, sessMethod, devVars, nvVars, subVars, bkVars>>

(***************************************************************************)
(* Bounds of the model.                                                    *)
(***************************************************************************)
MaxOdd == 2
MaxOps == 2
MaxEntries == 2
MaxNvOps == 3
MaxLen == 4

(***************************************************************************)
(* Program constants.                                                      *)
(***************************************************************************)
DIAG_BAD_CMD_F == 19
DIAG_BAD_PARM_F == 20
DIAG_BAD_LEN_F == 21
DIAG_BAD_SEC_MODE_F == 71
DIAG_SUBSYS_CMD_F == 75
EFS_ALTERNATE == 62
EFS_STANDARD == 19
EFS2_DIAG_FACT_IMAGE_START == 22
EFS2_DIAG_FACT_IMAGE_READ == 23
EFS2_DIAG_FACT_IMAGE_END == 24
EFS2_DIAG_PREP_FACT_IMAGE == 25
LEGACY_SECOND_BYTE == 98
PAGE_UNIT == 512
PAGE_SMALL == 512
PAGE_LARGE == 2048
PAGE_OVERHEAD == 17
HEADER_OFFSET == 16
HEADER_SIZE == 156
LEGACY_DATA_OFFSET == 20
LEGACY_TRAILER == 4
EFS2_DIAG_OPEN == 2
EFS2_DIAG_CLOSE == 3
EFS2_DIAG_READ == 4
EFS2_DIAG_WRITE == 5
EFS2_DIAG_OPENDIR == 11
EFS2_DIAG_READDIR == 12
EFS2_DIAG_CLOSEDIR == 13
EFS2_DIAG_FSTAT == 17
O_RDONLY == 0
O_WRONLY == 1
O_ACCMODE == 3
FS_DIAG_MAX_READ_REQ == 1024
EFS_ERR_FIRST == 1073741825
EFS_ERR_LAST == 1073741836
PROBE_PAD == 40
DIRENT_FIELDS == 36
NAME_WIDTH == 50
DIAG_NV_READ_F == 38
DIAG_NV_WRITE_F == 39
RAW_LEN == 128
\* line 1102: the status of an inactive item
NV_INACTIVE == 5
SUBSYS_NV == 48
NV_SUB_READ == 1
NV_SUB_WRITE == 2
IMEI_ITEM == 550
IMEI_LEAD == 8

(***************************************************************************)
(* Byte strings.                                                           *)
(***************************************************************************)
Min(a, b) == IF a < b THEN a ELSE b

Pow256(n) == IF n = 0 THEN 1 ELSE IF n = 1 THEN 256 ELSE IF n = 2 THEN 65536 ELSE 16777216

\* struct.pack("<B|<H|<I", v): n little-endian bytes of v
LE(v, n) == [i \in 1..n |-> (v \div Pow256(i - 1)) % 256]

\* struct.unpack of n little-endian bytes at 0-based offset off
U(s, off, n) ==
    LET RECURSIVE acc(_)
        acc(i) == IF i = 0 THEN 0 ELSE s[off + i] * Pow256(i - 1) + acc(i - 1)
    IN  acc(n)

U32(s, off) == U(s, off, 4)

\* struct.unpack("<i", ...): two's complement
S32(s, off) ==
    IF s[off + 4] >= 128
    THEN U(s, off, 3) + (s[off + 4] - 256) * 16777216
    ELSE U(s, off, 4)

\* struct.pack("<i", v)
LES(v) ==
    IF v >= 0 THEN LE(v, 4)
    ELSE LET w == (v + 2147483647) + 1
         IN  <<w % 256, (w \div 256) % 256, (w \div 65536) % 256, (w \div 16777216) + 128>>

\* unpack("<I", s[off:off+4]) raises struct.error unless the slice has 4 bytes
CanUnpack(s, off, n) == Len(s) >= off + n

\* Python s[a:b] for 0 <= a, 0 <= b
Slice(s, a, b) == SubSeq(s, a + 1, Min(b, Len(s)))

\* Python s[a:-k] for 0 <= a, 0 < k
SliceEnd(s, a, k) == SubSeq(s, a + 1, Len(s) - k)

Fill(n, b) == [i \in 1..n |-> b]

\* what the log keeps of a response: the step that sent the request, the
\* response's length and its two leading bytes
RespHead(at, r) == [at |-> at, len |-> Len(r),
                    b0 |-> IF Len(r) > 0 THEN r[1] ELSE -1,
                    b1 |-> IF Len(r) > 1 THEN r[2] ELSE -1]

(***************************************************************************)
(* Return values.                                                          *)
(***************************************************************************)
RetNone == [tag |-> "None", val |-> 0]
RetTrue == [tag |-> "True", val |-> 0]
RetFalse == [tag |-> "False", val |-> 0]
RetFault == [tag |-> "fault", val |-> 0]
RetBool(b) == IF b THEN RetTrue ELSE RetFalse
RetInt(n) == [tag |-> "int", val |-> n]
\* efslistdir returns the listing: val is its number of entries
RetInfo(n) == [tag |-> "info", val |-> n]

\* what a helper hands back to its caller: an exception, None, an integer or a list
Raise == [kind |-> "raise", v |-> 0]
NoneV == [kind |-> "none", v |-> 0]
IntV(x) == [kind |-> "int", v |-> x]
ListV(x) == [kind |-> "list", v |-> x]

\* read_nvitem's [True, NVitem] and its three failures
RetItem(it, d, st) == [tag |-> "nvitem", val |-> [item |-> it, data |-> d, status |-> st]]
RetError(tag, v) == [tag |-> tag, val |-> v]

(***************************************************************************)
(* FactImageReadInfo and FactoryHeader.                                    *)
(***************************************************************************)
ZeroCursor == [stream_state |-> 0, info_cluster_sent |-> 0,
               cluster_map_seqno |-> 0, cluster_data_seqno |-> 0]

\* utils.read_object(data, layout): the field of n bytes at offset off of the
\* record, little-endian; a field that is cut short raises struct.error
ReadField(d, off, n) == U(d, off, n)

CursorFromData(d) ==
    [stream_state |-> ReadField(d, 0, 1), info_cluster_sent |-> ReadField(d, 1, 1),
     cluster_map_seqno |-> ReadField(d, 2, 2), cluster_data_seqno |-> ReadField(d, 4, 4)]

CursorToData(c) ==
    <<c.stream_state, c.info_cluster_sent>> \o LE(c.cluster_map_seqno, 2)
        \o LE(c.cluster_data_seqno, 4)

ZeroHeader == [block_size |-> 0, page_size |-> 0, block_count |-> 0]

HeaderFromData(d) ==
    [block_size |-> ReadField(d, 12, 4), page_size |-> ReadField(d, 16, 4),
     block_count |-> ReadField(d, 20, 4)]

(***************************************************************************)
(* Requests of efsread.                                                    *)
(***************************************************************************)
FactProbeReq(m) == <<DIAG_SUBSYS_CMD_F, m, 25, 0>>

PrepReq(m) == <<DIAG_SUBSYS_CMD_F, m, EFS2_DIAG_PREP_FACT_IMAGE, 0>>

StartReq(m) == <<DIAG_SUBSYS_CMD_F, m, EFS2_DIAG_FACT_IMAGE_START, 0>>

ReadReq(m, c) == <<DIAG_SUBSYS_CMD_F, m, EFS2_DIAG_FACT_IMAGE_READ, 0>> \o CursorToData(c)

EndReq(m) == <<DIAG_SUBSYS_CMD_F, m, EFS2_DIAG_FACT_IMAGE_END, 0>>

(***************************************************************************)
(* The device.  It answers each request at once.  Its nominal answer is    *)
(* the protocol's; it may give up to MaxOdd other answers (no answer, an   *)
(* error frame, another response shape).                                   *)
(***************************************************************************)
Empty == <<>>

BadCmd(request) == <<DIAG_BAD_CMD_F>> \o request

SecGate(request) == <<DIAG_BAD_SEC_MODE_F>> \o request

Choices(nominal, others) ==
    {[r |-> nominal, cost |-> 0]}
        \cup (IF odd > 0 THEN {[r |-> x, cost |-> 1] : x \in others \ {nominal}} ELSE {})

ProbeAnswers(request) ==
    Choices(IF request[2] \in devMethods THEN request ELSE BadCmd(request), {Empty})

PlainAnswers(request) == Choices(request, {Empty})

DevHeaderBytes ==
    LE(1397114949, 4) \o LE(1397114950, 4) \o LE(2, 2) \o LE(3, 2) \o LE(devHdr[1], 4)
        \o LE(devHdr[3], 4) \o LE(devHdr[2], 4) \o LE(7, 4) \o Fill(128, 0)

DevNext(c) == [stream_state |-> 1, info_cluster_sent |-> 1,
               cluster_map_seqno |-> c.cluster_map_seqno,
               cluster_data_seqno |-> c.cluster_data_seqno + 1]

DevLegacyNext(c, more) == [stream_state |-> more, info_cluster_sent |-> 1,
                           cluster_map_seqno |-> c.cluster_map_seqno + 257,
                           cluster_data_seqno |-> c.cluster_data_seqno + 1]

PageFill(c) == 160 + (c.cluster_data_seqno % 16)

\* current shape: 16 bytes of header, the page, one trailing byte
CurResp(request, err, c, body) ==
    SubSeq(request, 1, 4) \o LE(err, 4) \o CursorToData(c) \o body \o <<126>>

\* legacy shape: 0x13 0x62, cursor at 0x0C, the page at 0x14, four trailing bytes
LegacyResp(c, n) ==
    <<DIAG_BAD_CMD_F, LEGACY_SECOND_BYTE>> \o Fill(10, 0) \o CursorToData(c)
        \o Fill(n - 24, PageFill(c)) \o Fill(4, 126)

FirstAnswers(request) ==
    LET c == DevNext(CursorFromData(SubSeq(request, 5, 12)))
    IN  Choices(CurResp(request, 0, c, DevHeaderBytes \o Fill(PAGE_SMALL - HEADER_SIZE, 170)),
                {Empty, BadCmd(request), SecGate(request),
                 <<DIAG_BAD_PARM_F>> \o request, <<DIAG_BAD_LEN_F>> \o request,
                 CurResp(request, 1073741835, c, <<>>),
                 CurResp(request, 0, c, Fill(40, 170)),
                 SubSeq(request, 1, 4) \o LE(0, 4) \o <<1, 1>>})

PageAnswers(request) ==
    LET rc == CursorFromData(SubSeq(request, 5, 12))
        c == DevNext(rc)
    IN  Choices(CurResp(request, 0, c, Fill(PAGE_SMALL, PageFill(c))),
                {Empty,
                 CurResp(request, 0, c, Fill(PAGE_LARGE, PageFill(c))),
                 CurResp(request, 0, c, Fill(256, PageFill(c))),
                 LegacyResp(DevLegacyNext(rc, 1), PAGE_SMALL + PAGE_OVERHEAD),
                 LegacyResp(DevLegacyNext(rc, 0), PAGE_SMALL + PAGE_OVERHEAD),
                 LegacyResp(DevLegacyNext(rc, 0), PAGE_SMALL + 24),
                 <<DIAG_BAD_PARM_F>> \o Fill(PAGE_SMALL + PAGE_OVERHEAD - 1, 0)})

(***************************************************************************)
(* Steps shared by the operations: one step is one send() and the code     *)
(* that handles its response up to the next send() or the return.          *)
(***************************************************************************)
Send(request, a) ==
    /\ sent' = Append(sent, request)
    /\ heads' = Append(heads, RespHead(pc, a.r))
    /\ resp' = a.r
    /\ odd' = odd - a.cost

Return(v) == pc' = "done" /\ result' = v

\* an exception nobody catches (IndexError, struct.error, TypeError)
Fault == pc' = "fault" /\ result' = RetFault

(***************************************************************************)
(* efsread(filename): the factory image export.                            *)
(***************************************************************************)
Filenames == {"", "efs.bin"}

\* lines 1254-1262, once a method is selected
FactOpen(m, fn) ==
    /\ efsmethod' = m
    /\ IF fn = ""
       THEN Return(RetFalse) /\ UNCHANGED <<outfile, fileOpen>>
       ELSE pc' = "fact_prep" /\ outfile' = <<>> /\ fileOpen' = TRUE /\ UNCHANGED result
    /\ fefs' = ZeroCursor
    /\ UNCHANGED <<fh, total, page, efserr>>

FactProbeAlt ==
    /\ pc = "idle"
    /\ opsLeft > 0
    /\ opsLeft' = opsLeft - 1
    /\ op' = "efsread"
    /\ \E fn \in Filenames, a \in ProbeAnswers(FactProbeReq(EFS_ALTERNATE)) :
        /\ arg' = [path |-> fn]
        /\ Send(FactProbeReq(EFS_ALTERNATE), a)
        /\ IF Len(a.r) = 0
           THEN Fault /\ UNCHANGED <<efsmethod, factVars>>
           ELSE IF a.r[1] = DIAG_SUBSYS_CMD_F
           THEN FactOpen(EFS_ALTERNATE, fn)
           ELSE pc' = "fact_probe_std" /\ UNCHANGED <<efsmethod, result, factVars>>
    /\ UNCHANGED factFrame

FactProbeStd ==
    /\ UNCHANGED opsLeft
    /\ pc = "fact_probe_std"
    /\ \E a \in ProbeAnswers(FactProbeReq(EFS_STANDARD)) :
        /\ Send(FactProbeReq(EFS_STANDARD), a)
        /\ IF Len(a.r) = 0
           THEN Fault /\ UNCHANGED <<efsmethod, factVars>>
           ELSE IF a.r[1] = DIAG_SUBSYS_CMD_F
           THEN FactOpen(EFS_STANDARD, arg.path)
           ELSE Return(RetNone) /\ UNCHANGED <<efsmethod, factVars>>
    /\ UNCHANGED <<op, arg, factFrame>>

FactPrep_Mut ==
    /\ UNCHANGED opsLeft
    /\ pc = "fact_prep"
    /\ \E a \in PlainAnswers(PrepReq(efsmethod)) : Send(PrepReq(efsmethod), a)
    /\ pc' = "fact_start"
    /\ UNCHANGED <<op, arg, efsmethod, result, factVars, factFrame>>

FactPrep ==
    /\ UNCHANGED opsLeft
    /\ pc = "fact_prep"
    /\ \E a \in PlainAnswers(PrepReq(efsmethod)) :
        /\ Send(PrepReq(efsmethod), a)
        /\ IF Len(a.r) = 0
           THEN Return(RetFalse)
           ELSE pc' = "fact_start" /\ UNCHANGED result
    /\ UNCHANGED <<op, arg, efsmethod, factVars, factFrame>>

FactStart ==
    /\ UNCHANGED opsLeft
    /\ pc = "fact_start"
    /\ \E a \in PlainAnswers(StartReq(efsmethod)) : Send(StartReq(efsmethod), a)
    /\ pc' = "fact_first"
    /\ UNCHANGED <<op, arg, efsmethod, result, factVars, factFrame>>

FirstOutcome_Mut(r) ==
    IF ~CanUnpack(r, 4, 4) THEN "fault"
    ELSE IF r[1] = DIAG_BAD_CMD_F \/ r[1] = DIAG_BAD_PARM_F \/ r[1] = DIAG_BAD_LEN_F
            \/ U32(r, 4) # 0 THEN "unsupported"
    ELSE IF ~CanUnpack(r, 8, 8) THEN "fault_cursor"
    ELSE IF ~CanUnpack(r, HEADER_OFFSET, HEADER_SIZE) THEN "fault_header"
    ELSE "ok"

\* lines 1283-1306: what the first FACT_IMAGE_READ response leads to
FirstOutcome(r) ==
    IF ~CanUnpack(r, 4, 4) THEN "fault"
    ELSE IF r[1] = DIAG_BAD_CMD_F \/ r[1] = DIAG_BAD_PARM_F \/ r[1] = DIAG_BAD_LEN_F
            \/ U32(r, 4) # 0 THEN "unsupported"
    ELSE IF r[1] = DIAG_BAD_SEC_MODE_F THEN "security"
    ELSE IF ~CanUnpack(r, 8, 8) THEN "fault_cursor"
    ELSE IF ~CanUnpack(r, HEADER_OFFSET, HEADER_SIZE) THEN "fault_header"
    ELSE "ok"

TotalPages_Mut(h) == h.block_size * h.block_count * (h.page_size \div PAGE_UNIT) + 1

\* line 1310
TotalPages(h) == h.block_size * h.block_count * (h.page_size \div PAGE_UNIT)

FactFirst_Mut ==
    /\ UNCHANGED opsLeft
    /\ pc = "fact_first"
    /\ \E a \in FirstAnswers(ReadReq(efsmethod, fefs)) :
        /\ Send(ReadReq(efsmethod, fefs), a)
        /\ LET o == FirstOutcome(a.r)
               h == HeaderFromData(Slice(a.r, HEADER_OFFSET, HEADER_OFFSET + HEADER_SIZE))
           IN  CASE o = "fault" ->
                     Fault /\ UNCHANGED factVars
                 [] o \in {"unsupported", "security"} ->
                     /\ Return(RetFalse)
                     /\ fileOpen' = FALSE
                     /\ UNCHANGED <<fefs, fh, total, page, efserr, outfile>>
                 [] o = "fault_cursor" ->
                     /\ Fault
                     /\ outfile' = outfile \o SliceEnd(a.r, HEADER_OFFSET, 1)
                     /\ UNCHANGED <<fefs, fh, total, page, efserr, fileOpen>>
                 [] o = "fault_header" ->
                     /\ Fault
                     /\ outfile' = outfile \o SliceEnd(a.r, HEADER_OFFSET, 1)
                     /\ fefs' = CursorFromData(Slice(a.r, 8, 16))
                     /\ UNCHANGED <<fh, total, page, efserr, fileOpen>>
                 [] o = "ok" ->
                     /\ outfile' = outfile \o SliceEnd(a.r, HEADER_OFFSET, 0)
                     /\ fefs' = CursorFromData(Slice(a.r, 8, 16))
                     /\ fh' = h
                     /\ total' = TotalPages(h)
                     /\ page' = 0
                     /\ efserr' = FALSE
                     /\ pc' = IF TotalPages(h) > 0 THEN "fact_page" ELSE "fact_end"
                     /\ UNCHANGED <<result, fileOpen>>
    /\ UNCHANGED <<op, arg, efsmethod, factFrame>>

FactFirst ==
    /\ UNCHANGED opsLeft
    /\ pc = "fact_first"
    /\ \E a \in FirstAnswers(ReadReq(efsmethod, fefs)) :
        /\ Send(ReadReq(efsmethod, fefs), a)
        /\ LET o == FirstOutcome(a.r)
               h == HeaderFromData(Slice(a.r, HEADER_OFFSET, HEADER_OFFSET + HEADER_SIZE))
           IN  CASE o = "fault" ->
                     Fault /\ UNCHANGED factVars
                 [] o \in {"unsupported", "security"} ->
                     /\ Return(RetFalse)
                     /\ fileOpen' = FALSE
                     /\ UNCHANGED <<fefs, fh, total, page, efserr, outfile>>
                 [] o = "fault_cursor" ->
                     /\ Fault
                     /\ outfile' = outfile \o SliceEnd(a.r, HEADER_OFFSET, 1)
                     /\ UNCHANGED <<fefs, fh, total, page, efserr, fileOpen>>
                 [] o = "fault_header" ->
                     /\ Fault
                     /\ outfile' = outfile \o SliceEnd(a.r, HEADER_OFFSET, 1)
                     /\ fefs' = CursorFromData(Slice(a.r, 8, 16))
                     /\ UNCHANGED <<fh, total, page, efserr, fileOpen>>
                 [] o = "ok" ->
                     /\ outfile' = outfile \o SliceEnd(a.r, HEADER_OFFSET, 1)
                     /\ fefs' = CursorFromData(Slice(a.r, 8, 16))
                     /\ fh' = h
                     /\ total' = TotalPages(h)
                     /\ page' = 0
                     /\ efserr' = FALSE
                     /\ pc' = IF TotalPages(h) > 0 THEN "fact_page" ELSE "fact_end"
                     /\ UNCHANGED <<result, fileOpen>>
    /\ UNCHANGED <<op, arg, efsmethod, factFrame>>

\* lines 1324-1349: what a response in the page loop leads to
PageOutcome(r) ==
    LET dlen == Len(r) - PAGE_OVERHEAD
    IN  IF dlen = PAGE_SMALL \/ dlen = PAGE_LARGE
        THEN IF r[1] = DIAG_SUBSYS_CMD_F THEN "current"
             ELSE IF r[1] = DIAG_BAD_CMD_F /\ r[2] = LEGACY_SECOND_BYTE /\ Len(r) > PAGE_UNIT
             THEN "legacy"
             ELSE "error"
        ELSE "ignored"

PageCursor_Mut(r, o, cur) ==
    IF o = "legacy" THEN CursorFromData(Slice(r, 12, LEGACY_DATA_OFFSET)) ELSE cur

\* lines 1339 and 1343: the cursor after a response of outcome o
PageCursor(r, o, cur) ==
    IF o = "current" THEN CursorFromData(Slice(r, 8, 16))
    ELSE IF o = "legacy" THEN CursorFromData(Slice(r, 12, LEGACY_DATA_OFFSET))
    ELSE cur

FactPageRetry_Mut ==
    /\ UNCHANGED opsLeft
    /\ pc = "fact_page"
    /\ \E a \in PageAnswers(ReadReq(efsmethod, fefs)) :
        /\ Send(ReadReq(efsmethod, fefs), a)
        /\ LET o == PageOutcome(a.r)
               dlen == Len(a.r) - PAGE_OVERHEAD
               lc == PageCursor(a.r, o, fefs)
               stop == \/ o = "error"
                       \/ o = "legacy" /\ lc.stream_state = 0
                       \/ (o # "ignored" /\ page + 1 >= total)
           IN  /\ CASE o = "current" ->
                         /\ outfile' = outfile \o Slice(a.r, HEADER_OFFSET, HEADER_OFFSET + dlen)
                         /\ fefs' = PageCursor(a.r, o, fefs)
                         /\ UNCHANGED efserr
                     [] o = "legacy" ->
                         /\ outfile' = outfile \o SliceEnd(a.r, LEGACY_DATA_OFFSET, LEGACY_TRAILER)
                         /\ fefs' = lc
                         /\ UNCHANGED efserr
                     [] o = "error" ->
                         /\ efserr' = TRUE
                         /\ UNCHANGED <<outfile, fefs>>
                     [] o = "ignored" ->
                         UNCHANGED <<outfile, fefs, efserr>>
               /\ page' = IF o \in {"error", "ignored"} \/ (o = "legacy" /\ lc.stream_state = 0)
                          THEN page ELSE page + 1
               /\ pc' = IF stop THEN "fact_end" ELSE "fact_page"
    /\ UNCHANGED <<op, arg, efsmethod, result, fh, total, fileOpen, factFrame>>

FactPage_Mut ==
    /\ UNCHANGED opsLeft
    /\ pc = "fact_page"
    /\ \E a \in PageAnswers(ReadReq(efsmethod, fefs)) :
        /\ Send(ReadReq(efsmethod, fefs), a)
        /\ LET o == PageOutcome(a.r)
               dlen == Len(a.r) - PAGE_OVERHEAD
               lc == PageCursor(a.r, o, fefs)
               stop == \/ o = "error"
                       \/ o = "legacy" /\ lc.stream_state = 0
                       \/ page + 1 >= total
           IN  /\ CASE o = "current" ->
                         /\ outfile' = outfile \o Slice(a.r, HEADER_OFFSET, HEADER_OFFSET + dlen)
                         /\ fefs' = PageCursor(a.r, o, fefs)
                         /\ fh' = [fh EXCEPT !.page_size = dlen]
                         /\ UNCHANGED efserr
                     [] o = "legacy" ->
                         /\ outfile' = outfile \o SliceEnd(a.r, LEGACY_DATA_OFFSET, LEGACY_TRAILER)
                         /\ fefs' = lc
                         /\ UNCHANGED <<efserr, fh>>
                     [] o = "error" ->
                         /\ efserr' = TRUE
                         /\ UNCHANGED <<outfile, fefs, fh>>
                     [] o = "ignored" ->
                         UNCHANGED <<outfile, fefs, efserr, fh>>
               /\ page' = IF o = "error" \/ (o = "legacy" /\ lc.stream_state = 0)
                          THEN page ELSE page + 1
               /\ pc' = IF stop THEN "fact_end" ELSE "fact_page"
    /\ UNCHANGED <<op, arg, efsmethod, result, total, fileOpen, factFrame>>

FactPage ==
    /\ UNCHANGED opsLeft
    /\ pc = "fact_page"
    /\ \E a \in PageAnswers(ReadReq(efsmethod, fefs)) :
        /\ Send(ReadReq(efsmethod, fefs), a)
        /\ LET o == PageOutcome(a.r)
               dlen == Len(a.r) - PAGE_OVERHEAD
               lc == PageCursor(a.r, o, fefs)
               stop == \/ o = "error"
                       \/ o = "legacy" /\ lc.stream_state = 0
                       \/ page + 1 >= total
           IN  /\ CASE o = "current" ->
                         /\ outfile' = outfile \o Slice(a.r, HEADER_OFFSET, HEADER_OFFSET + dlen)
                         /\ fefs' = PageCursor(a.r, o, fefs)
                         /\ UNCHANGED efserr
                     [] o = "legacy" ->
                         /\ outfile' = outfile \o SliceEnd(a.r, LEGACY_DATA_OFFSET, LEGACY_TRAILER)
                         /\ fefs' = lc
                         /\ UNCHANGED efserr
                     [] o = "error" ->
                         /\ efserr' = TRUE
                         /\ UNCHANGED <<outfile, fefs>>
                     [] o = "ignored" ->
                         UNCHANGED <<outfile, fefs, efserr>>
               /\ page' = IF o = "error" \/ (o = "legacy" /\ lc.stream_state = 0)
                          THEN page ELSE page + 1
               /\ pc' = IF stop THEN "fact_end" ELSE "fact_page"
    /\ UNCHANGED <<op, arg, efsmethod, result, fh, total, fileOpen, factFrame>>

FactEnd ==
    /\ UNCHANGED opsLeft
    /\ pc = "fact_end"
    /\ \E a \in PlainAnswers(EndReq(efsmethod)) :
        /\ Send(EndReq(efsmethod), a)
        /\ IF Len(a.r) = 0
           THEN Return(RetFalse) /\ UNCHANGED fileOpen
           ELSE Return(RetBool(~efserr)) /\ fileOpen' = FALSE
    /\ UNCHANGED <<op, arg, efsmethod, fefs, fh, total, page, efserr, outfile,
                   factFrame>>

(***************************************************************************)
(* EFS requests (path arguments are given as their UTF-8 bytes).           *)
(***************************************************************************)
EfsHead(m, c) == <<DIAG_SUBSYS_CMD_F, m, c, 0>>

EfsProbeReq(m) == <<DIAG_SUBSYS_CMD_F, m, 0, 0>> \o Fill(PROBE_PAD, 0)

OpendirReq(m, path) == EfsHead(m, EFS2_DIAG_OPENDIR) \o path \o <<0>>

ReaddirReq_Mut(m, d, q) == EfsHead(m, EFS2_DIAG_READDIR) \o LE(d, 4) \o LE(q + 1, 4)

ReaddirReq(m, d, q) == EfsHead(m, EFS2_DIAG_READDIR) \o LE(d, 4) \o LE(q, 4)

ClosedirReq(m, d) == EfsHead(m, EFS2_DIAG_CLOSEDIR) \o LE(d, 4)

OpenReq(m, oflag, mode, path) ==
    EfsHead(m, EFS2_DIAG_OPEN) \o LE(oflag, 4) \o LE(mode, 4) \o path \o <<0>>

FstatReq(m, fd) == EfsHead(m, EFS2_DIAG_FSTAT) \o LE(fd, 4)

EfsReadReq_Mut(m, fd, nbytes, off) ==
    EfsHead(m, EFS2_DIAG_WRITE) \o LE(fd, 4) \o LE(nbytes, 4) \o LE(off + nbytes, 4)

\* efs_read builds its request with the WRITE command byte (line 1599)
EfsReadReq(m, fd, nbytes, off) ==
    EfsHead(m, EFS2_DIAG_WRITE) \o LE(fd, 4) \o LE(nbytes, 4) \o LE(off, 4)

CloseReq(m, fd) == EfsHead(m, EFS2_DIAG_CLOSE) \o LES(fd)

(***************************************************************************)
(* EFS helpers: what each one hands back for a response r.                 *)
(***************************************************************************)
efsdiagerror_Mut(errcode) == IF errcode \in EFS_ERR_FIRST..(EFS_ERR_LAST - 1) THEN -1 ELSE 0

efsdiagerror(errcode) == IF errcode \in EFS_ERR_FIRST..EFS_ERR_LAST THEN -1 ELSE 0

\* the guard "resp[0] != DIAG_BAD_SEC_MODE_F and resp[0] != DIAG_BAD_LEN_F"
Rejected(r) == r[1] \in {DIAG_BAD_SEC_MODE_F, DIAG_BAD_LEN_F}

efs_opendir(r) ==
    IF Len(r) = 0 THEN Raise
    ELSE IF Rejected(r) THEN NoneV
    ELSE IF ~CanUnpack(r, 4, 4) \/ ~CanUnpack(r, 8, 4) THEN Raise
    ELSE IF efsdiagerror(U32(r, 8)) # 0 THEN IntV(-1)
    ELSE IntV(U32(r, 4))

efs_closedir(r) ==
    IF ~CanUnpack(r, 4, 4) THEN Raise ELSE IntV(efsdiagerror(U32(r, 4)))

efs_open(r) ==
    IF Len(r) = 0 THEN Raise
    ELSE IF Rejected(r) THEN NoneV
    ELSE IF ~CanUnpack(r, 4, 4) \/ ~CanUnpack(r, 8, 4) THEN Raise
    ELSE IF efsdiagerror(U32(r, 8)) # 0 THEN IntV(-1)
    ELSE IntV(S32(r, 4))

efs_close(r) ==
    IF ~CanUnpack(r, 4, 4) THEN Raise ELSE IntV(efsdiagerror(U32(r, 4)))

efs_fstat(r) ==
    IF Len(r) = 0 THEN Raise
    ELSE IF Rejected(r) THEN NoneV
    ELSE IF ~CanUnpack(r, 4, 28) THEN Raise
    ELSE IF efsdiagerror(U32(r, 4)) # 0 THEN IntV(-1)
    ELSE ListV([mode |-> U32(r, 8), size |-> U32(r, 12)])

efs_read(r) ==
    IF Len(r) = 0 THEN Raise
    ELSE IF Rejected(r) THEN NoneV
    ELSE IF ~CanUnpack(r, 4, 16) THEN Raise
    ELSE IF efsdiagerror(U32(r, 16)) # 0 THEN IntV(-1)
    ELSE ListV([fdata |-> S32(r, 4), offset |-> U32(r, 8), bytes_read |-> U32(r, 12),
                data |-> SubSeq(r, 21, Len(r))])

\* lines 1483-1497
efs_stat(r) ==
    IF Len(r) = 0 THEN Raise
    ELSE IF Rejected(r) THEN NoneV
    ELSE IF ~CanUnpack(r, 4, 28) THEN Raise
    ELSE IF efsdiagerror(U32(r, 4)) # 0 THEN IntV(-1)
    ELSE ListV([mode |-> U32(r, 8), size |-> U32(r, 12)])

\* lines 1515-1528
efs_lstat(r) ==
    IF Len(r) = 0 THEN Raise
    ELSE IF Rejected(r) THEN NoneV
    ELSE IF ~CanUnpack(r, 4, 20) THEN Raise
    ELSE IF efsdiagerror(U32(r, 4)) # 0 THEN IntV(-1)
    ELSE ListV([mode |-> U32(r, 8), atime |-> U32(r, 12)])

\* lines 1544-1556
efs_write(r) ==
    IF Len(r) = 0 THEN Raise
    ELSE IF Rejected(r) THEN NoneV
    ELSE IF ~CanUnpack(r, 4, 16) THEN Raise
    ELSE IF efsdiagerror(U32(r, 16)) # 0 THEN IntV(-1)
    ELSE ListV([fdata |-> S32(r, 4), offset |-> U32(r, 8), bytes_written |-> U32(r, 12)])

\* lines 1558-1563: what efs_rmdir, efs_unlink, efs_chown, efs_chmod and
\* efs_mkdir return
handle_error(r) ==
    IF Len(r) = 0 THEN Raise
    ELSE IF Rejected(r) THEN NoneV
    ELSE IF ~CanUnpack(r, 4, 4) THEN Raise
    ELSE IF efsdiagerror(U32(r, 4)) # 0 THEN IntV(-1)
    ELSE IntV(0)

(***************************************************************************)
(* The device's side of the EFS file and directory commands.               *)
(***************************************************************************)
DEV_DIRP == 7
DEV_FD == 3
EINVALID_PATH == 1073741829
ENOENT == 2

EntryName(k) == <<96 + k, 46, 110, 118>>

DirEntryResp(request, d, q, type) ==
    SubSeq(request, 1, 4) \o LE(d, 4) \o LE(q, 4) \o LE(0, 4) \o LE(type, 4) \o LE(33188, 4)
        \o LE(16 * q, 4) \o LE(0, 4) \o LE(0, 4) \o LE(0, 4)
        \o (IF type = 1 THEN EntryName(q) ELSE <<>>) \o <<0>>

OpendirAnswers(request) ==
    Choices(SubSeq(request, 1, 4) \o LE(DEV_DIRP, 4) \o LE(0, 4),
            {Empty, SecGate(request),
             SubSeq(request, 1, 4) \o LE(0, 4) \o LE(EINVALID_PATH, 4)})

ReaddirAnswers(request) ==
    LET d == U32(request, 4)
        q == U32(request, 8)
    IN  Choices(DirEntryResp(request, d, q, IF q <= devEntries THEN 1 ELSE 0),
                {Empty, DirEntryResp(request, d, q, 2),
                 SubSeq(DirEntryResp(request, d, q, 0), 1, 20)})

ClosedirAnswers(request) == Choices(SubSeq(request, 1, 4) \o LE(0, 4), {Empty})

OpenAnswers(request) ==
    Choices(SubSeq(request, 1, 4) \o LES(DEV_FD) \o LE(0, 4),
            {Empty, SecGate(request),
             SubSeq(request, 1, 4) \o LES(-1) \o LE(ENOENT, 4),
             SubSeq(request, 1, 4) \o LES(-2) \o LE(ENOENT, 4),
             SubSeq(request, 1, 4) \o LES(0) \o LE(EINVALID_PATH, 4)})

FstatResp(request, err, mode, sz) ==
    SubSeq(request, 1, 4) \o LE(err, 4) \o LE(mode, 4) \o LE(sz, 4) \o LE(1, 4)
        \o LE(0, 4) \o LE(0, 4) \o LE(0, 4)

FstatAnswers(request) ==
    Choices(FstatResp(request, 0, devMode, devSize),
            {Empty, SecGate(request), FstatResp(request, EFS_ERR_FIRST, 0, 0)})

EfsReadResp(request, err, n) ==
    SubSeq(request, 1, 4) \o SubSeq(request, 5, 8) \o SubSeq(request, 13, 16) \o LE(n, 4)
        \o LE(err, 4) \o Fill(n, 176 + (U32(request, 12) \div FS_DIAG_MAX_READ_REQ))

EfsReadAnswers(request) ==
    Choices(EfsReadResp(request, 0, U32(request, 8)),
            {Empty, SecGate(request), EfsReadResp(request, EFS_ERR_FIRST, 0)})

CloseAnswers(request) == Choices(SubSeq(request, 1, 4) \o LE(0, 4), {Empty})

(***************************************************************************)
(* Method probing shared by efslistdir, efsreadfile and efswritefile.      *)
(***************************************************************************)
DirPaths == {<<47>>}
SrcPaths == {<<47, 110, 118>>}

\* the alternate probe: lines 1428-1432, 1613-1617, 1660-1664
EfsProbeAlt(name, paths, next, std) ==
    /\ pc = "idle"
    /\ opsLeft > 0
    /\ opsLeft' = opsLeft - 1
    /\ op' = name
    /\ \E p \in paths, a \in ProbeAnswers(EfsProbeReq(EFS_ALTERNATE)) :
        /\ arg' = [path |-> p]
        /\ Send(EfsProbeReq(EFS_ALTERNATE), a)
        /\ IF Len(a.r) = 0
           THEN Fault /\ UNCHANGED efsmethod
           ELSE IF a.r[1] = DIAG_SUBSYS_CMD_F
           THEN efsmethod' = EFS_ALTERNATE /\ pc' = next /\ UNCHANGED result
           ELSE pc' = std /\ UNCHANGED <<efsmethod, result>>
    /\ UNCHANGED <<dirVars, fileVars, efsFrame>>

\* the standard probe: lines 1433-1439, 1618-1624, 1665-1671
EfsProbeStd(next, std, none) ==
    /\ pc = std
    /\ \E a \in ProbeAnswers(EfsProbeReq(EFS_STANDARD)) :
        /\ Send(EfsProbeReq(EFS_STANDARD), a)
        /\ IF Len(a.r) = 0
           THEN Fault /\ UNCHANGED efsmethod
           ELSE IF a.r[1] = DIAG_SUBSYS_CMD_F
           THEN efsmethod' = EFS_STANDARD /\ pc' = next /\ UNCHANGED result
           ELSE Return(none) /\ UNCHANGED efsmethod
    /\ UNCHANGED <<op, arg, opsLeft, dirVars, fileVars, efsFrame>>

(***************************************************************************)
(* efslistdir(path).                                                       *)
(***************************************************************************)
ListProbeAlt == EfsProbeAlt("efslistdir", DirPaths, "list_opendir", "list_probe_std")

ListProbeStd == EfsProbeStd("list_opendir", "list_probe_std", RetNone)

\* lines 1441-1445; a dirp of None fails in the first pack("<II", dirp, seqno)
ListOpendir ==
    /\ pc = "list_opendir"
    /\ \E a \in OpendirAnswers(OpendirReq(efsmethod, arg.path)) :
        /\ Send(OpendirReq(efsmethod, arg.path), a)
        /\ LET d == efs_opendir(a.r)
           IN  IF d.kind \in {"raise", "none"}
               THEN Fault /\ UNCHANGED dirVars
               ELSE IF d.v = -1
               THEN Return(RetNone) /\ UNCHANGED dirVars
               ELSE /\ dirp' = d.v
                    /\ seqno' = 1
                    /\ info' = <<>>
                    /\ pc' = "list_readdir"
                    /\ UNCHANGED result
    /\ UNCHANGED <<op, arg, efsmethod, opsLeft, fileVars, efsFrame>>

\* one turn of the loop of lines 1446-1459
ListReaddir ==
    /\ pc = "list_readdir"
    /\ \E a \in ReaddirAnswers(ReaddirReq(efsmethod, dirp, seqno)) :
        /\ Send(ReaddirReq(efsmethod, dirp, seqno), a)
        /\ IF Len(a.r) = 0
           THEN /\ seqno' = seqno + 1
                /\ pc' = "list_readdir"
                /\ UNCHANGED <<dirp, info, result>>
           ELSE IF ~CanUnpack(a.r, 4, DIRENT_FIELDS)
           THEN Fault /\ UNCHANGED dirVars
           ELSE LET entry_type == S32(a.r, 16)
                    entry_name == SliceEnd(a.r, 4 + DIRENT_FIELDS, 1)
                    padded == IF Len(entry_name) < NAME_WIDTH
                              THEN entry_name \o Fill(NAME_WIDTH - Len(entry_name), 32)
                              ELSE entry_name
                IN  /\ dirp' = U32(a.r, 4)
                    /\ info' = IF entry_type = 1 THEN Append(info, padded) ELSE info
                    /\ seqno' = IF entry_type = 0 THEN seqno ELSE seqno + 1
                    /\ pc' = IF entry_type = 0 THEN "list_closedir" ELSE "list_readdir"
                    /\ UNCHANGED result
    /\ UNCHANGED <<op, arg, efsmethod, opsLeft, fileVars, efsFrame>>

\* lines 1460-1462
ListClosedir ==
    /\ pc = "list_closedir"
    /\ \E a \in ClosedirAnswers(ClosedirReq(efsmethod, dirp)) :
        /\ Send(ClosedirReq(efsmethod, dirp), a)
        /\ IF efs_closedir(a.r).kind = "raise"
           THEN Fault
           ELSE Return(RetInfo(Len(info)))
    /\ UNCHANGED <<op, arg, efsmethod, opsLeft, dirVars, fileVars, efsFrame>>

(***************************************************************************)
(* efsreadfile(srcpath, dstpath).                                          *)
(***************************************************************************)
RfProbeAlt == EfsProbeAlt("efsreadfile", SrcPaths, "rf_open", "rf_probe_std")

RfProbeStd == EfsProbeStd("rf_open", "rf_probe_std", RetInt(0))

\* lines 1626-1628 and 1673-1675; a descriptor of None or below -1 fails in
\* the pack("<I", fdata) of efs_fstat
OpenStep(at, next) ==
    /\ pc = at
    /\ \E a \in OpenAnswers(OpenReq(efsmethod, O_RDONLY, 0, arg.path)) :
        /\ Send(OpenReq(efsmethod, O_RDONLY, 0, arg.path), a)
        /\ LET f == efs_open(a.r)
           IN  IF f.kind \in {"raise", "none"}
               THEN Fault /\ UNCHANGED fdata
               ELSE IF f.v = -1
               THEN Return(RetInt(0)) /\ UNCHANGED fdata
               ELSE IF f.v < 0
               THEN Fault /\ fdata' = f.v
               ELSE pc' = next /\ fdata' = f.v /\ UNCHANGED result
    /\ UNCHANGED <<op, arg, efsmethod, opsLeft, dirVars, efsFrame>>
    /\ UNCHANGED <<size, offset, dataleft, num_bytes, localfile>>

RfOpen == OpenStep("rf_open", "rf_fstat")

\* lines 1629-1644; unpacking the result of efs_fstat into six names fails
\* when it is None or -1
RfFstat ==
    /\ pc = "rf_fstat"
    /\ \E a \in FstatAnswers(FstatReq(efsmethod, fdata)) :
        /\ Send(FstatReq(efsmethod, fdata), a)
        /\ LET st == efs_fstat(a.r)
           IN  IF st.kind # "list"
               THEN Fault /\ UNCHANGED <<size, offset, dataleft, num_bytes, localfile>>
               ELSE IF st.v.size = 0 \/ (st.v.mode % (O_ACCMODE + 1)) = O_WRONLY
               THEN /\ size' = st.v.size
                    /\ pc' = "rf_close0"
                    /\ UNCHANGED <<offset, dataleft, num_bytes, localfile, result>>
               ELSE /\ size' = st.v.size
                    /\ num_bytes' = 0
                    /\ offset' = 0
                    /\ localfile' = <<>>
                    /\ dataleft' = st.v.size
                    /\ pc' = "rf_read"
                    /\ UNCHANGED result
    /\ UNCHANGED <<op, arg, efsmethod, opsLeft, fdata, dirVars, efsFrame>>

\* one turn of the loop of lines 1645-1655; a negative descriptor taken
\* from the response fails in the next pack("<III", fdata, ...)
RfRead ==
    /\ pc = "rf_read"
    /\ LET rsize == IF dataleft > FS_DIAG_MAX_READ_REQ THEN FS_DIAG_MAX_READ_REQ ELSE dataleft
       IN  \E a \in EfsReadAnswers(EfsReadReq(efsmethod, fdata, rsize, offset)) :
            /\ Send(EfsReadReq(efsmethod, fdata, rsize, offset), a)
            /\ LET finfo == efs_read(a.r)
               IN  IF finfo.kind \in {"raise", "none"}
                   THEN Fault /\ UNCHANGED <<fdata, offset, dataleft, localfile>>
                   ELSE IF finfo.kind = "int"
                   THEN pc' = "rf_close" /\ UNCHANGED <<fdata, offset, dataleft, localfile, result>>
                   ELSE /\ fdata' = finfo.v.fdata
                        /\ localfile' = localfile \o finfo.v.data
                        /\ offset' = finfo.v.offset + rsize
                        /\ dataleft' = dataleft - rsize
                        /\ IF dataleft - rsize > 0
                           THEN IF finfo.v.fdata < 0
                                THEN Fault
                                ELSE pc' = "rf_read" /\ UNCHANGED result
                           ELSE pc' = "rf_close" /\ UNCHANGED result
    /\ UNCHANGED <<op, arg, efsmethod, opsLeft, size, num_bytes, dirVars, efsFrame>>

\* efs_close and the return that follows it
CloseStep(at, v) ==
    /\ pc = at
    /\ \E a \in CloseAnswers(CloseReq(efsmethod, fdata)) :
        /\ Send(CloseReq(efsmethod, fdata), a)
        /\ IF efs_close(a.r).kind = "raise"
           THEN Fault
           ELSE Return(RetInt(v))
    /\ UNCHANGED <<op, arg, efsmethod, opsLeft, dirVars, fileVars, efsFrame>>

\* lines 1630-1632 and 1634-1637
RfCloseEarly == CloseStep("rf_close0", 0)

\* lines 1656-1657
RfClose == CloseStep("rf_close", num_bytes)

(***************************************************************************)
(* efswritefile(srcpath, dstpath); the local file srcpath exists.          *)
(***************************************************************************)
WfProbeAlt == EfsProbeAlt("efswritefile", SrcPaths, "wf_open", "wf_probe_std")

WfProbeStd == EfsProbeStd("wf_open", "wf_probe_std", RetInt(0))

WfOpen == OpenStep("wf_open", "wf_fstat")

\* lines 1676-1690: os.fstat(srcpath) is given a path, not a descriptor, and
\* raises TypeError
WfFstat ==
    /\ pc = "wf_fstat"
    /\ \E a \in FstatAnswers(FstatReq(efsmethod, fdata)) :
        /\ Send(FstatReq(efsmethod, fdata), a)
        /\ LET st == efs_fstat(a.r)
           IN  IF st.kind # "list"
               THEN Fault /\ UNCHANGED <<size, offset, num_bytes>>
               ELSE IF st.v.size = 0
               THEN size' = 0 /\ pc' = "wf_close0" /\ UNCHANGED <<offset, num_bytes, result>>
               ELSE size' = st.v.size /\ num_bytes' = 0 /\ offset' = 0 /\ Fault
    /\ UNCHANGED <<op, arg, efsmethod, opsLeft, fdata, dataleft, localfile, dirVars, efsFrame>>

\* lines 1677-1679
WfCloseEarly == CloseStep("wf_close0", 0)

(***************************************************************************)
(* NV items: read_nvitem(item) and write_nvitem(item, data).               *)
(***************************************************************************)
\* lines 1119-1127
unpackdata(data) ==
    LET rlen == Len(data)
        \* the number of bytes up to the last one that is not zero
        last == CHOOSE p \in 0..rlen : /\ (p = 0 \/ data[p] # 0)
                                       /\ \A q \in (p + 1)..rlen : data[q] = 0
        \* the loop leaves idx where the trailing zeros start, and at rlen - 1
        \* when it breaks on the last byte
        idx == IF last = rlen THEN rlen - 1 ELSE last
    IN  IF idx < 0 THEN SliceEnd(data, 0, -idx) ELSE Slice(data, 0, idx)

\* the padding loop of write_nvitem (lines 1196-1198)
PadRaw(d) == d \o Fill(RAW_LEN - Len(d), 0)

\* opcode, then the nvitem_type fields item, rawdata, status
NvReq(cmd, item, rawdata, status) == <<cmd>> \o LE(item, 2) \o rawdata \o LE(status, 2)

\* lines 1135-1149, given the last response
NvReadResult(data, item) ==
    IF Len(data) > 0
    THEN IF data[1] = DIAG_NV_READ_F
         THEN RetItem(U(data, 1, 2), unpackdata(SubSeq(data, 4, 3 + RAW_LEN)),
                      U(data, 3 + RAW_LEN, 2))
         ELSE IF data[1] = DIAG_BAD_PARM_F
         THEN RetError("badparm", item)
         ELSE RetError("error", data[1])
    ELSE RetError("empty", item)

NvVerify_Mut(res, data) == IF res.tag # "nvitem" THEN RetFalse ELSE RetTrue

\* lines 1205-1213: what write_nvitem makes of its verifying read
NvVerify(res, data) ==
    IF res.tag # "nvitem" THEN RetFalse
    ELSE IF res.val.data # data THEN RetFalse
    ELSE RetTrue

\* a raw field that no write of the model stores
OtherRaw == <<9, 9>> \o Fill(RAW_LEN - 2, 0)

\* the device answers a read with the raw field it stores
NvReadAnswers(request) ==
    Choices(<<DIAG_NV_READ_F>> \o SubSeq(request, 2, 3) \o nvStore[U(request, 1, 2)] \o LE(0, 2),
            {Empty, <<DIAG_BAD_PARM_F>> \o request, <<DIAG_BAD_CMD_F>> \o request,
             <<DIAG_NV_READ_F>> \o SubSeq(request, 2, 3) \o OtherRaw \o LE(0, 2)})

\* the device echoes an accepted write
NvWriteAnswers(request) == Choices(request, {Empty, <<DIAG_BAD_CMD_F>> \o request})

NvItems == {550, 6}

NvRaws == {PadRaw(<<>>), PadRaw(<<8, 58, 33>>), <<1>> \o Fill(RAW_LEN - 2, 0) \o <<5>>}

WriteSamples == {<<8, 58>>}

\* payloads the user can write: a sample, or one that a read has returned
WriteData == WriteSamples \cup {hist[i].result.val.data :
                                  i \in {j \in 1..Len(hist) : hist[j].result.tag = "nvitem"}}

\* write_nvitem or write_nvitemsub hands v back: to the user, or to
\* write_imei (lines 1189-1193)
Finish(v, back) ==
    IF op = "write_imei"
    THEN pc' = back /\ result' = v
    ELSE Return(v)

\* what follows the last response of read_nvitem in its caller c
NvReadDone(data, item, c) ==
    IF c = "none"
    THEN Return(NvReadResult(data, item))
    ELSE Finish(NvVerify(NvReadResult(data, item), arg.data), "imei_flat_back")

NvReadFirst_Mut(item, c) ==
    \E a \in NvReadAnswers(NvReq(DIAG_NV_READ_F, item, Fill(RAW_LEN, 0), 0)) :
        /\ Send(NvReq(DIAG_NV_READ_F, item, Fill(RAW_LEN, 0), 0), a)
        /\ NvReadDone(a.r, item, c)

\* lines 1130-1134: the first request of read_nvitem
NvReadFirst(item, c) ==
    \E a \in NvReadAnswers(NvReq(DIAG_NV_READ_F, item, Fill(RAW_LEN, 0), 0)) :
        /\ Send(NvReq(DIAG_NV_READ_F, item, Fill(RAW_LEN, 0), 0), a)
        /\ IF Len(a.r) = 0
           THEN pc' = "nv_retry" /\ UNCHANGED result
           ELSE NvReadDone(a.r, item, c)

ReadNvitem ==
    /\ pc = "idle"
    /\ opsLeft > 0
    /\ opsLeft' = opsLeft - 1
    /\ op' = "read_nvitem"
    /\ caller' = "none"
    /\ \E item \in NvItems :
        /\ arg' = [item |-> item, data |-> <<>>]
        /\ NvReadFirst(item, "none")
    /\ UNCHANGED <<efsmethod, sessMethod, factVars, dirVars, fileVars, devVars, hist, nvStore>>
    /\ UNCHANGED <<subVars, bkVars>>

\* lines 1133-1134: the one re-send after an empty response
ReadNvitemRetry ==
    /\ pc = "nv_retry"
    /\ \E a \in NvReadAnswers(NvReq(DIAG_NV_READ_F, arg.item, Fill(RAW_LEN, 0), 0)) :
        /\ Send(NvReq(DIAG_NV_READ_F, arg.item, Fill(RAW_LEN, 0), 0), a)
        /\ NvReadDone(a.r, arg.item, caller)
    /\ UNCHANGED <<op, arg, efsmethod, sessVars, factVars, dirVars, fileVars, devVars, nvVars>>
    /\ UNCHANGED <<subVars, bkVars>>

WriteNvitem_Mut ==
    /\ pc = "idle"
    /\ opsLeft > 0
    /\ opsLeft' = opsLeft - 1
    /\ op' = "write_nvitem"
    /\ \E item \in NvItems, data \in WriteData :
        /\ arg' = [item |-> item, data |-> data]
        /\ \E a \in NvWriteAnswers(NvReq(DIAG_NV_WRITE_F, item, PadRaw(data), 0)) :
            /\ Send(NvReq(DIAG_NV_WRITE_F, item, PadRaw(data), 0), a)
            /\ nvStore' = IF Len(a.r) > 0 /\ a.r[1] = DIAG_NV_WRITE_F
                          THEN [nvStore EXCEPT ![item] = PadRaw(data)]
                          ELSE nvStore
            /\ IF Len(a.r) > 0
               THEN pc' = "nv_verify" /\ caller' = "write_nvitem" /\ UNCHANGED result
               ELSE Return(RetNone) /\ caller' = "none"
    /\ UNCHANGED <<efsmethod, sessMethod, factVars, dirVars, fileVars, devVars, hist>>
    /\ UNCHANGED <<subVars, bkVars>>

\* lines 1195-1203 and 1214-1215
WriteNvitem ==
    /\ pc = "idle"
    /\ opsLeft > 0
    /\ opsLeft' = opsLeft - 1
    /\ op' = "write_nvitem"
    /\ \E item \in NvItems, data \in WriteData :
        /\ arg' = [item |-> item, data |-> data]
        /\ \E a \in NvWriteAnswers(NvReq(DIAG_NV_WRITE_F, item, PadRaw(data), 0)) :
            /\ Send(NvReq(DIAG_NV_WRITE_F, item, PadRaw(data), 0), a)
            /\ nvStore' = IF Len(a.r) > 0 /\ a.r[1] = DIAG_NV_WRITE_F
                          THEN [nvStore EXCEPT ![item] = PadRaw(data)]
                          ELSE nvStore
            /\ IF Len(a.r) > 0 /\ a.r[1] = DIAG_NV_WRITE_F
               THEN pc' = "nv_verify" /\ caller' = "write_nvitem" /\ UNCHANGED result
               ELSE Return(RetNone) /\ caller' = "none"
    /\ UNCHANGED <<efsmethod, sessMethod, factVars, dirVars, fileVars, devVars, hist>>
    /\ UNCHANGED <<subVars, bkVars>>

\* line 1204: the verifying read_nvitem
WriteNvitemVerify ==
    /\ pc = "nv_verify"
    /\ NvReadFirst(arg.item, caller)
    /\ UNCHANGED <<op, arg, efsmethod, sessVars, factVars, dirVars, fileVars, devVars, nvVars>>
    /\ UNCHANGED <<subVars, bkVars>>

(***************************************************************************)
(* Sub-items: read_nvitemsub(item, index), write_nvitemsub(item, index,    *)
(* data).                                                                  *)
(***************************************************************************)
\* the subsystem header, then the subnvitem_type fields item, index, rawdata, status
NvSubReq(cmd, item, idx, rawdata, status) ==
    <<DIAG_SUBSYS_CMD_F, SUBSYS_NV, cmd, 0>> \o LE(item, 2) \o LE(idx, 2) \o rawdata
        \o LE(status, 2)

\* lines 1158-1171, given the last response
NvSubReadResult_Mut(data, item, idx) ==
    IF Len(data) > 0
    THEN IF data[1] = DIAG_SUBSYS_CMD_F
         THEN RetItem(U(data, 1, 2), unpackdata(SubSeq(data, 4, 3 + RAW_LEN)),
                      U(data, 3 + RAW_LEN, 2))
         ELSE IF data[1] = DIAG_BAD_PARM_F
         THEN RetError("badparm", item)
         ELSE RetError("error", data[1])
    ELSE RetError("empty", item)

NvSubReadResult(data, item, idx) ==
    IF Len(data) > 0
    THEN IF data[1] = DIAG_SUBSYS_CMD_F
         THEN RetItem(U(data, 4, 2), unpackdata(SubSeq(data, 9, 8 + RAW_LEN)),
                      U(data, 8 + RAW_LEN, 2))
         ELSE IF data[1] = DIAG_BAD_PARM_F
         THEN RetError("badparm", item)
         ELSE RetError("error", data[1])
    ELSE RetError("empty", item)

SubKeys == {<<IMEI_ITEM, 0>>, <<IMEI_ITEM, 1>>, <<IMEI_ITEM, 2>>}

SubRaws == {PadRaw(<<>>), PadRaw(<<8, 58, 33>>)}

\* the device answers a sub-item read with the raw field it stores
NvSubReadAnswers(request) ==
    Choices(SubSeq(request, 1, 8) \o nvSub[<<U(request, 4, 2), U(request, 6, 2)>>] \o LE(0, 2),
            {Empty, <<DIAG_BAD_PARM_F>> \o request, <<DIAG_BAD_CMD_F>> \o request,
             SubSeq(request, 1, 8) \o OtherRaw \o LE(0, 2)})

NvSubWriteAnswers(request) == Choices(request, {Empty, <<DIAG_BAD_CMD_F>> \o request})

\* what follows the last response of read_nvitemsub in its caller c
NvSubReadDone(data, item, idx, c) ==
    IF c = "none"
    THEN Return(NvSubReadResult(data, item, idx))
    ELSE Finish(NvVerify(NvSubReadResult(data, item, idx), arg.data), "imei_next")

\* lines 1152-1156: the first request of read_nvitemsub
NvSubReadFirst(item, idx, c) ==
    \E a \in NvSubReadAnswers(NvSubReq(NV_SUB_READ, item, idx, Fill(RAW_LEN, 0), 0)) :
        /\ Send(NvSubReq(NV_SUB_READ, item, idx, Fill(RAW_LEN, 0), 0), a)
        /\ IF Len(a.r) = 0
           THEN pc' = "nvsub_retry" /\ UNCHANGED result
           ELSE NvSubReadDone(a.r, item, idx, c)

ReadNvitemSub ==
    /\ pc = "idle"
    /\ opsLeft > 0
    /\ opsLeft' = opsLeft - 1
    /\ op' = "read_nvitemsub"
    /\ caller' = "none"
    /\ \E k \in SubKeys :
        /\ arg' = [item |-> k[1], data |-> <<>>]
        /\ index' = k[2]
        /\ NvSubReadFirst(k[1], k[2], "none")
    /\ UNCHANGED <<efsmethod, sessMethod, factVars, dirVars, fileVars, devVars, hist, nvStore>>
    /\ UNCHANGED <<nvSub, bkVars>>

\* lines 1156-1157: the one re-send after an empty response
ReadNvitemSubRetry ==
    /\ pc = "nvsub_retry"
    /\ \E a \in NvSubReadAnswers(NvSubReq(NV_SUB_READ, arg.item, index, Fill(RAW_LEN, 0), 0)) :
        /\ Send(NvSubReq(NV_SUB_READ, arg.item, index, Fill(RAW_LEN, 0), 0), a)
        /\ NvSubReadDone(a.r, arg.item, index, caller)
    /\ UNCHANGED <<op, arg, efsmethod, sessVars, factVars, dirVars, fileVars, devVars, nvVars>>
    /\ UNCHANGED <<subVars, bkVars>>

\* lines 1218-1225 and 1237-1238: the write request of write_nvitemsub
NvSubWriteSend(item, idx, data) ==
    \E a \in NvSubWriteAnswers(NvSubReq(NV_SUB_WRITE, item, idx, PadRaw(data), 0)) :
        /\ Send(NvSubReq(NV_SUB_WRITE, item, idx, PadRaw(data), 0), a)
        /\ nvSub' = IF Len(a.r) > 0 /\ a.r[1] = DIAG_SUBSYS_CMD_F
                    THEN [nvSub EXCEPT ![<<item, idx>>] = PadRaw(data)]
                    ELSE nvSub
        /\ IF Len(a.r) > 0 /\ a.r[1] = DIAG_SUBSYS_CMD_F
           THEN pc' = "nvsub_verify" /\ caller' = "write_nvitemsub" /\ UNCHANGED result
           ELSE Finish(RetNone, "imei_next") /\ UNCHANGED caller

WriteNvitemSub ==
    /\ pc = "idle"
    /\ opsLeft > 0
    /\ opsLeft' = opsLeft - 1
    /\ op' = "write_nvitemsub"
    /\ \E k \in SubKeys, data \in WriteData :
        /\ arg' = [item |-> k[1], data |-> data]
        /\ index' = k[2]
        /\ NvSubWriteSend(k[1], k[2], data)
    /\ UNCHANGED <<efsmethod, sessMethod, factVars, dirVars, fileVars, devVars, hist, nvStore>>
    /\ UNCHANGED bkVars

\* line 1226: the verifying read_nvitemsub
WriteNvitemSubVerify ==
    /\ pc = "nvsub_verify"
    /\ NvSubReadFirst(arg.item, index, caller)
    /\ UNCHANGED <<op, arg, efsmethod, sessVars, factVars, dirVars, fileVars, devVars, nvVars>>
    /\ UNCHANGED <<subVars, bkVars>>

(***************************************************************************)
(* write_imei(imeis); each IMEI is given as its 15 digits.                 *)
(***************************************************************************)
\* lines 1173-1178: "08", the first digit with "A", then the digits in
\* swapped pairs, read as hexadecimal
convertimei_Mut(imei) ==
    <<IMEI_LEAD, imei[1] * 16 + 10>>
        \o [k \in 1..((Len(imei) - 1) \div 2) |-> imei[2 * k] * 16 + imei[2 * k + 1]]

convertimei(imei) ==
    <<IMEI_LEAD, imei[1] * 16 + 10>>
        \o [k \in 1..((Len(imei) - 1) \div 2) |-> imei[2 * k + 1] * 16 + imei[2 * k]]

ImeiLists == {<< <<3, 5, 3, 9, 1, 8, 0, 5, 1, 2, 3, 4, 5, 6, 7>> >>,
              << <<3, 5, 3, 9, 1, 8, 0, 5, 1, 2, 3, 4, 5, 6, 7>>,
                 <<8, 6, 0, 0, 4, 6, 0, 3, 9, 8, 7, 6, 5, 4, 3>> >>,
              << <<3, 5, 3, 9, 1, 8, 0, 5, 1, 2, 3, 4, 5, 6, 7>>,
                 <<8, 6, 0, 0, 4, 6, 0, 3, 9, 8, 7, 6, 5, 4, 3>>,
                 <<4, 9, 0, 1, 5, 4, 2, 0, 3, 2, 3, 7, 5, 1, 8>> >>}

\* lines 1180-1189: the first IMEI goes to write_nvitem(550, data)
WriteImei ==
    /\ pc = "idle"
    /\ opsLeft > 0
    /\ opsLeft' = opsLeft - 1
    /\ op' = "write_imei"
    /\ \E imeis \in ImeiLists :
        LET data == convertimei(imeis[1])
        IN  /\ arg' = [imeis |-> imeis, item |-> IMEI_ITEM, data |-> data]
            /\ \E a \in NvWriteAnswers(NvReq(DIAG_NV_WRITE_F, IMEI_ITEM, PadRaw(data), 0)) :
                /\ Send(NvReq(DIAG_NV_WRITE_F, IMEI_ITEM, PadRaw(data), 0), a)
                /\ nvStore' = IF Len(a.r) > 0 /\ a.r[1] = DIAG_NV_WRITE_F
                              THEN [nvStore EXCEPT ![IMEI_ITEM] = PadRaw(data)]
                              ELSE nvStore
                /\ IF Len(a.r) > 0 /\ a.r[1] = DIAG_NV_WRITE_F
                   THEN pc' = "nv_verify" /\ caller' = "write_nvitem" /\ UNCHANGED result
                   ELSE pc' = "imei_flat_back" /\ result' = RetNone /\ caller' = "none"
    /\ UNCHANGED <<efsmethod, sessMethod, factVars, dirVars, fileVars, devVars, hist>>
    /\ UNCHANGED <<subVars, bkVars>>

\* lines 1189-1190: when write_nvitem did not return True, the same data
\* goes to write_nvitemsub(550, index, data) with index 0
ImeiFlatBack ==
    /\ pc = "imei_flat_back"
    /\ IF result = RetTrue
       THEN /\ pc' = "imei_next"
            /\ UNCHANGED <<sent, heads, resp, odd, result, caller, nvSub>>
       ELSE NvSubWriteSend(IMEI_ITEM, index, arg.data)
    /\ UNCHANGED <<op, arg, efsmethod, sessVars, factVars, dirVars, fileVars, devVars>>
    /\ UNCHANGED <<hist, nvStore, index, bkVars>>

ImeiNext_Mut ==
    /\ pc = "imei_next"
    /\ index' = index + 1
    /\ IF index + 1 < Len(arg.imeis)
       THEN /\ arg' = [arg EXCEPT !.data = convertimei(arg.imeis[index + 2])]
            /\ NvSubWriteSend(IMEI_ITEM, 1, convertimei(arg.imeis[index + 2]))
       ELSE /\ Return(RetNone)
            /\ UNCHANGED <<arg, sent, heads, resp, odd, caller, nvSub>>
    /\ UNCHANGED <<op, efsmethod, sessVars, factVars, dirVars, fileVars, devVars>>
    /\ UNCHANGED <<hist, nvStore, bkVars>>

\* lines 1186-1187 and 1191-1193: the next IMEI goes to write_nvitemsub
ImeiNext ==
    /\ pc = "imei_next"
    /\ index' = index + 1
    /\ IF index + 1 < Len(arg.imeis)
       THEN /\ arg' = [arg EXCEPT !.data = convertimei(arg.imeis[index + 2])]
            /\ NvSubWriteSend(IMEI_ITEM, index + 1, convertimei(arg.imeis[index + 2]))
       ELSE /\ Return(RetNone)
            /\ UNCHANGED <<arg, sent, heads, resp, odd, caller, nvSub>>
    /\ UNCHANGED <<op, efsmethod, sessVars, factVars, dirVars, fileVars, devVars>>
    /\ UNCHANGED <<hist, nvStore, bkVars>>

(***************************************************************************)
(* backup_nvitems(filename, errorlog): the scan of the NV ids.             *)
(***************************************************************************)
\* line 1095: range(0, 0xFFFF)
SCAN_END == 65535

\* during the scan the device answers each id in one way: nothing at all,
\* bad parameter, the value it stores, or an inactive item
ScanAnswer(request) ==
    IF U(request, 1, 2) \in devScan.silent THEN Empty
    ELSE IF U(request, 1, 2) \in devScan.bad THEN <<DIAG_BAD_PARM_F>> \o request
    ELSE IF U(request, 1, 2) \in DOMAIN nvStore
    THEN <<DIAG_NV_READ_F>> \o SubSeq(request, 2, 3) \o nvStore[U(request, 1, 2)] \o LE(0, 2)
    ELSE <<DIAG_NV_READ_F>> \o SubSeq(request, 2, 3) \o Fill(RAW_LEN, 0) \o LE(NV_INACTIVE, 2)

\* lines 1132-1134 of read_nvitem: the response, after the one re-send
ScanRequest_Mut(item) == NvReq(DIAG_NV_WRITE_F, item, Fill(RAW_LEN, 0), 0)

\* lines 1130-1131: the request read_nvitem builds for the scan
ScanRequest(item) == NvReq(DIAG_NV_READ_F, item, Fill(RAW_LEN, 0), 0)

ScanData(item) ==
    LET nvrequest == ScanRequest(item)
        data == ScanAnswer(nvrequest)
    IN  IF Len(data) = 0 THEN ScanAnswer(nvrequest) ELSE data

\* the requests of one turn of the scan: the read and, after an empty
\* response, its one re-send
ScanSent(item) ==
    IF Len(ScanAnswer(ScanRequest(item))) = 0
    THEN <<ScanRequest(item), ScanRequest(item)>>
    ELSE <<ScanRequest(item)>>

\* line 1104: the entry of the backup list
BackupEntry(nvitem) == [id |-> nvitem.item, data |-> nvitem.data, status |-> nvitem.status]

\* lines 1101-1105: the list after the read of one id
BackupList(list, res) ==
    IF res.tag = "nvitem" /\ res.val.status # NV_INACTIVE
    THEN Append(list, BackupEntry(res.val))
    ELSE list

\* lines 1106-1107: the error text after the read of one id
BackupErrors(errs, res, item) ==
    IF res.tag = "nvitem" THEN errs ELSE Append(errs, [item |-> item, tag |-> res.tag])

\* what backup_nvitems leaves: the backup file and the error text
RetBackup(list, errs) == [tag |-> "backup", val |-> [file |-> list, errorlog |-> errs]]

\* lines 1087-1094: with enabled_print the name print is a local that was
\* never assigned, and line 1094 raises UnboundLocalError
BackupNvitems ==
    /\ pc = "idle"
    /\ opsLeft > 0
    /\ opsLeft' = opsLeft - 1
    /\ op' = "backup_nvitems"
    /\ \E enabled_print \in BOOLEAN :
        /\ arg' = [enabled_print |-> enabled_print]
        /\ IF enabled_print
           THEN Fault
           ELSE pc' = "bk_scan" /\ UNCHANGED result
    /\ pos' = 0
    /\ nvitems' = <<>>
    /\ errors' = <<>>
    /\ UNCHANGED <<efsmethod, sent, heads, resp, odd, sessMethod, factVars, dirVars, fileVars,
                   devVars, nvVars, subVars, devScan>>

\* lines 1095-1108: one id of the scan, res is what read_nvitem(item)
\* returns.  Of the requests of the scan, sent keeps those of the last turn.
BackupScan ==
    /\ pc = "bk_scan"
    /\ pos < SCAN_END
    /\ \E res \in {NvReadResult(ScanData(pos), pos)} :
        /\ nvitems' = BackupList(nvitems, res)
        /\ errors' = BackupErrors(errors, res, pos)
    /\ pos' = pos + 1
    /\ sent' = ScanSent(pos)
    /\ heads' = [k \in DOMAIN ScanSent(pos) |-> RespHead(pc, ScanAnswer(ScanRequest(pos)))]
    /\ UNCHANGED <<pc, op, arg, result, efsmethod, resp, odd, sessVars, factVars,
                   dirVars, fileVars, devVars, nvVars, subVars, devScan>>

\* lines 1109-1117: the list and the error text are written
BackupWrite ==
    /\ pc = "bk_scan"
    /\ pos >= SCAN_END
    /\ Return(RetBackup(nvitems, errors))
    /\ UNCHANGED <<op, arg, efsmethod, sent, heads, resp, odd, sessVars, factVars, dirVars,
                   fileVars, devVars, nvVars, subVars, bkVars>>

\* unpackdata(data) called on its own
SampleBytes == {0, 7, 255}

ByteStrings == UNION {[1..n -> SampleBytes] : n \in 0..MaxLen}

RetBytes(d) == [tag |-> "bytes", val |-> d]

Unpackdata ==
    /\ pc = "idle"
    /\ op' = "unpackdata"
    /\ \E d \in ByteStrings :
        /\ arg' = [data |-> d]
        /\ Return(RetBytes(unpackdata(d)))
    /\ UNCHANGED <<efsmethod, sent, heads, resp, odd, sessVars, factVars, dirVars, fileVars,
                   devVars, nvVars, subVars, bkVars>>

(***************************************************************************)
(* The EFS helpers called on their own, each on a response of the device.  *)
(***************************************************************************)
HelperNames == {"handle_error", "efs_open", "efs_opendir", "efs_stat", "efs_fstat",
                "efs_lstat", "efs_read", "efs_write"}

HelperResult(h, r) ==
    CASE h = "handle_error" -> handle_error(r)
      [] h = "efs_open" -> efs_open(r)
      [] h = "efs_opendir" -> efs_opendir(r)
      [] h = "efs_stat" -> efs_stat(r)
      [] h = "efs_fstat" -> efs_fstat(r)
      [] h = "efs_lstat" -> efs_lstat(r)
      [] h = "efs_read" -> efs_read(r)
      [] h = "efs_write" -> efs_write(r)

\* error codes and other values of a 32-bit field of a response
SampleCodes == {0, 3, EFS_ERR_FIRST}

\* responses: none, or a leading byte, two 32-bit fields and the rest
HelperResponses ==
    {Empty} \cup {<<b0, EFS_ALTERNATE, 0, 0>> \o LE(w1, 4) \o LE(w2, 4) \o Fill(n, 0) :
                    b0 \in {DIAG_SUBSYS_CMD_F, DIAG_BAD_SEC_MODE_F, DIAG_BAD_LEN_F},
                    w1 \in SampleCodes, w2 \in SampleCodes, n \in {0, 24}}

RetHelper(v) == [tag |-> "helper", val |-> v]

EfsHelper ==
    /\ pc = "idle"
    /\ \E h \in HelperNames, r \in HelperResponses :
        /\ op' = h
        /\ arg' = [resp |-> r]
        /\ IF HelperResult(h, r).kind = "raise"
           THEN Fault
           ELSE Return(RetHelper(HelperResult(h, r)))
    /\ UNCHANGED <<efsmethod, sent, heads, resp, odd, sessVars, factVars, dirVars, fileVars,
                   devVars, nvVars, subVars, bkVars>>

\* efsdiagerror(errcode) called on its own
ErrCodes == {0, 1, 3, 1073741824, EFS_ERR_FIRST - 1, EFS_ERR_LAST + 1, 2147483647}
                \cup EFS_ERR_FIRST..EFS_ERR_LAST

Efsdiagerror ==
    /\ pc = "idle"
    /\ op' = "efsdiagerror"
    /\ \E errcode \in ErrCodes :
        /\ arg' = [errcode |-> errcode]
        /\ Return(RetInt(efsdiagerror(errcode)))
    /\ UNCHANGED <<efsmethod, sent, heads, resp, odd, sessVars, factVars, dirVars, fileVars,
                   devVars, nvVars, subVars, bkVars>>

\* convertimei(imei) called on its own, on strings of 15 digits
IMEI_DIGITS == 15

ImeiSamples == {[i \in 1..IMEI_DIGITS |-> (a * i + b) % 10] : a \in 0..9, b \in 0..9}

Convertimei ==
    /\ pc = "idle"
    /\ op' = "convertimei"
    /\ \E imei \in ImeiSamples :
        /\ arg' = [imei |-> imei]
        /\ Return(RetBytes(convertimei(imei)))
    /\ UNCHANGED <<efsmethod, sent, heads, resp, odd, sessVars, factVars, dirVars, fileVars,
                   devVars, nvVars, subVars, bkVars>>

\* the last three calls
Latest(h) == IF Len(h) > 3 THEN Tail(h) ELSE h

(***************************************************************************)
(* The caller takes the result; the next operation starts with fresh       *)
(* locals.  The session keeps the method the first successful probe chose. *)
(***************************************************************************)
FreshLocals ==
    /\ op = "none"
    /\ arg = [path |-> <<>>]
    /\ efsmethod = 0
    /\ sent = <<>>
    /\ heads = <<>>
    /\ resp = <<>>
    /\ result = RetNone
    /\ fefs = ZeroCursor
    /\ fh = ZeroHeader
    /\ total = 0
    /\ page = 0
    /\ efserr = FALSE
    /\ outfile = <<>>
    /\ fileOpen = FALSE
    /\ dirp = 0
    /\ seqno = 0
    /\ info = <<>>
    /\ fdata = 0
    /\ size = 0
    /\ offset = 0
    /\ dataleft = 0
    /\ num_bytes = 0
    /\ localfile = <<>>
    /\ caller = "none"
    /\ index = 0
    /\ pos = 0
    /\ nvitems = <<>>
    /\ errors = <<>>

OpEnd ==
    /\ pc \in {"done", "fault"}
    /\ pc' = "idle"
    /\ op' = "none"
    /\ arg' = [path |-> <<>>]
    /\ efsmethod' = 0
    /\ sent' = <<>>
    /\ heads' = <<>>
    /\ resp' = <<>>
    /\ result' = RetNone
    /\ fefs' = ZeroCursor
    /\ fh' = ZeroHeader
    /\ total' = 0
    /\ page' = 0
    /\ efserr' = FALSE
    /\ outfile' = <<>>
    /\ fileOpen' = FALSE
    /\ dirp' = 0
    /\ seqno' = 0
    /\ info' = <<>>
    /\ fdata' = 0
    /\ size' = 0
    /\ offset' = 0
    /\ dataleft' = 0
    /\ num_bytes' = 0
    /\ localfile' = <<>>
    /\ caller' = "none"
    /\ index' = 0
    /\ pos' = 0
    /\ nvitems' = <<>>
    /\ errors' = <<>>
    /\ sessMethod' = IF sessMethod = 0 THEN efsmethod ELSE sessMethod
    /\ hist' = IF op \in {"read_nvitem", "write_nvitem"}
               THEN Latest(Append(hist, [op |-> op, item |-> arg.item, data |-> arg.data,
                                         result |-> result, nominal |-> odd = MaxOdd]))
               ELSE hist
    /\ UNCHANGED <<opsLeft, odd, devVars, nvStore, nvSub, devScan>>

(***************************************************************************)
(* Specifications.                                                         *)
(***************************************************************************)
\* a device whose sub-items are all zero and that answers every id it
\* stores nothing for as inactive
NoSubItems == [k \in SubKeys |-> Fill(RAW_LEN, 0)]

QuietScan == [bad |-> {}, silent |-> {}]

DevMethodSets == SUBSET {EFS_ALTERNATE, EFS_STANDARD}

DevHeaders == {<<2, 2, 512>>, <<1, 1, 512>>, <<1, 3, 1023>>, <<3, 1, 256>>}

\* the device's file: its size and mode
DevFiles == {<<0, 33188>>, <<5, 33188>>, <<1030, 33188>>, <<5, 33189>>, <<2048, 33188>>}

\* the export alone, run once
Init ==
    /\ pc = "idle"
    /\ FreshLocals
    /\ connected = TRUE
    /\ sessMethod = 0
    /\ opsLeft = 1
    /\ odd = MaxOdd
    /\ devMethods \in DevMethodSets
    /\ devHdr \in DevHeaders
    /\ devEntries = 0
    /\ devSize = 0
    /\ devMode = 0
    /\ hist = <<>>
    /\ nvStore = [i \in NvItems |-> PadRaw(<<>>)]
    /\ nvSub = NoSubItems
    /\ devScan = QuietScan

\* a session of up to MaxOps operations
InitEfs ==
    /\ pc = "idle"
    /\ FreshLocals
    /\ connected = TRUE
    /\ sessMethod = 0
    /\ opsLeft = MaxOps
    /\ odd = MaxOdd
    /\ devMethods \in DevMethodSets
    /\ devHdr = <<1, 1, 512>>
    /\ devEntries \in 0..MaxEntries
    /\ \E f \in DevFiles : devSize = f[1] /\ devMode = f[2]
    /\ hist = <<>>
    /\ nvStore = [i \in NvItems |-> PadRaw(<<>>)]
    /\ nvSub = NoSubItems
    /\ devScan = QuietScan

\* a session of up to MaxNvOps NV operations
InitNv ==
    /\ pc = "idle"
    /\ FreshLocals
    /\ connected = TRUE
    /\ sessMethod = 0
    /\ opsLeft = MaxNvOps
    /\ odd = MaxOdd
    /\ devMethods = {}
    /\ devHdr = <<1, 1, 512>>
    /\ devEntries = 0
    /\ devSize = 0
    /\ devMode = 0
    /\ hist = <<>>
    /\ nvStore \in [NvItems -> NvRaws]
    /\ nvSub = NoSubItems
    /\ devScan = QuietScan

\* one run of efsread
NextFact ==
    \/ FactProbeAlt
    \/ FactProbeStd
    \/ FactPrep
    \/ FactStart
    \/ FactFirst
    \/ FactPage
    \/ FactEnd

SpecFact == Init /\ [][NextFact]_vars

NextEfs ==
    \/ FactProbeAlt
    \/ FactProbeStd
    \/ FactPrep
    \/ FactStart
    \/ FactFirst
    \/ FactPage
    \/ FactEnd
    \/ ListProbeAlt
    \/ ListProbeStd
    \/ ListOpendir
    \/ ListReaddir
    \/ ListClosedir
    \/ RfProbeAlt
    \/ RfProbeStd
    \/ RfOpen
    \/ RfFstat
    \/ RfRead
    \/ RfCloseEarly
    \/ RfClose
    \/ WfProbeAlt
    \/ WfProbeStd
    \/ WfOpen
    \/ WfFstat
    \/ WfCloseEarly
    \/ OpEnd

SpecEfs == InitEfs /\ [][NextEfs]_vars

\* a pure function applied to each of its inputs
InitPure ==
    /\ pc = "idle"
    /\ FreshLocals
    /\ connected = TRUE
    /\ sessMethod = 0
    /\ opsLeft = 1
    /\ odd = 0
    /\ devMethods = {}
    /\ devHdr = <<1, 1, 512>>
    /\ devEntries = 0
    /\ devSize = 0
    /\ devMode = 0
    /\ hist = <<>>
    /\ nvStore = [i \in NvItems |-> PadRaw(<<>>)]
    /\ nvSub = NoSubItems
    /\ devScan = QuietScan

NextUnpack == Unpackdata

SpecUnpack == InitPure /\ [][NextUnpack]_vars

(***************************************************************************)
(* enter_saharamode(), lines 896-916.                                      *)
(***************************************************************************)
SaharaReq == <<DIAG_SUBSYS_CMD_F, 101, 1, 0>>

SaharaResponses == {SaharaReq, BadCmd(SaharaReq), Empty}

\* lines 905-916: success is assigned only under enabled_print, and True in
\* both branches; res[0] of an empty response raises IndexError before
\* disconnect
EnterSaharamode ==
    /\ pc = "idle"
    /\ op' = "enter_saharamode"
    /\ \E enabled_print \in BOOLEAN, r \in SaharaResponses :
        /\ arg' = [enabled_print |-> enabled_print]
        /\ Send(SaharaReq, [r |-> r, cost |-> 0])
        /\ IF enabled_print /\ Len(r) = 0
           THEN Fault /\ UNCHANGED connected
           ELSE Return(RetBool(enabled_print)) /\ connected' = FALSE
    /\ UNCHANGED <<efsmethod, sessVars, factVars, dirVars, fileVars, devMethods, devHdr,
                   devEntries, devSize, devMode, nvVars, subVars, bkVars>>

NextHelpers ==
    \/ EfsHelper
    \/ Efsdiagerror
    \/ Convertimei
    \/ EnterSaharamode

SpecHelpers == InitPure /\ [][NextHelpers]_vars

\* one call of an NV operation
InitNvCall ==
    /\ pc = "idle"
    /\ FreshLocals
    /\ connected = TRUE
    /\ sessMethod = 0
    /\ opsLeft = 1
    /\ odd = MaxOdd
    /\ devMethods = {}
    /\ devHdr = <<1, 1, 512>>
    /\ devEntries = 0
    /\ devSize = 0
    /\ devMode = 0
    /\ hist = <<>>
    /\ nvStore \in [NvItems -> NvRaws]
    /\ nvSub \in [SubKeys -> SubRaws]
    /\ devScan = QuietScan

NextNvCall ==
    \/ ReadNvitem
    \/ ReadNvitemRetry
    \/ WriteNvitem
    \/ WriteNvitemVerify
    \/ ReadNvitemSub
    \/ ReadNvitemSubRetry
    \/ WriteNvitemSub
    \/ WriteNvitemSubVerify
    \/ WriteImei
    \/ ImeiFlatBack
    \/ ImeiNext

SpecNvCall == InitNvCall /\ [][NextNvCall]_vars

\* the ids the device can refuse or leave unanswered during a scan
ScanConfigs == {[bad |-> {}, silent |-> {}], [bad |-> {0}, silent |-> {551}],
                [bad |-> {65534}, silent |-> {}]}

\* one backup of a device that stores IMEI item 550 and item 6
InitBackup ==
    /\ pc = "idle"
    /\ FreshLocals
    /\ connected = TRUE
    /\ sessMethod = 0
    /\ opsLeft = 1
    /\ odd = 0
    /\ devMethods = {}
    /\ devHdr = <<1, 1, 512>>
    /\ devEntries = 0
    /\ devSize = 0
    /\ devMode = 0
    /\ hist = <<>>
    /\ nvStore = [i \in NvItems |-> IF i = IMEI_ITEM THEN PadRaw(<<8, 58, 33>>) ELSE PadRaw(<<>>)]
    /\ nvSub = NoSubItems
    /\ devScan \in ScanConfigs

NextBackup ==
    \/ BackupNvitems
    \/ BackupScan
    \/ BackupWrite

SpecBackup == InitBackup /\ [][NextBackup]_vars

NextNv ==
    \/ ReadNvitem
    \/ ReadNvitemRetry
    \/ WriteNvitem
    \/ WriteNvitemVerify
    \/ OpEnd

SpecNv == InitNv /\ [][NextNv]_vars

(***************************************************************************)
(* Reading the log of the running operation.                               *)
(***************************************************************************)
NumAt(step) == Cardinality({i \in 1..Len(heads) : heads[i].at = step})

\* requests whose command byte (offset 2) is c
NumCmd(c) == Cardinality({i \in 1..Len(sent) : sent[i][3] = c})

EmptyPageAt(i) == i \in 1..Len(heads) /\ heads[i].at = "fact_page" /\ heads[i].len = 0

IsCurrentShape(h) ==
    h.b0 = DIAG_SUBSYS_CMD_F /\ (h.len - PAGE_OVERHEAD) \in {PAGE_SMALL, PAGE_LARGE}

IsLegacyShape(h) ==
    h.b0 = DIAG_BAD_CMD_F /\ h.b1 = LEGACY_SECOND_BYTE /\ h.len > PAGE_UNIT

IsLegacyBytes(r) == Len(r) > PAGE_UNIT /\ r[1] = DIAG_BAD_CMD_F /\ r[2] = LEGACY_SECOND_BYTE

Returned == pc = "done"

(***************************************************************************)
(* C1.  In efsread, on every path on which FACT_IMAGE_START has been sent, *)
(* exactly one FACT_IMAGE_END request has been sent when efsread returns.  *)
(* The code returns without END when the first FACT_IMAGE_READ response is *)
(* rejected (lines 1292-1299).                                             *)
(***************************************************************************)
C1_EndAfterStart ==
    (Returned /\ op = "efsread" /\ NumCmd(EFS2_DIAG_FACT_IMAGE_START) >= 1)
        => NumCmd(EFS2_DIAG_FACT_IMAGE_END) = 1

(***************************************************************************)
(* C2.  In the page loop of efsread an empty response makes the same       *)
(* request be sent again exactly once; when that retry is empty too, no    *)
(* further FACT_IMAGE_READ is sent, END is sent and efsread returns        *)
(* failure.  The code compares the response with 0 and -1 (lines 1325 and  *)
(* 1328), which no byte string equals, so an empty response is skipped.    *)
(***************************************************************************)
C2_EmptyPageRetriedOnce ==
    \A i \in 1..Len(heads) :
        (EmptyPageAt(i) /\ ~EmptyPageAt(i - 1)) =>
            /\ (i + 1 <= Len(sent)) => sent[i + 1] = sent[i]
            /\ Returned => i + 1 <= Len(sent)
            /\ EmptyPageAt(i + 1) =>
                /\ (i + 2 <= Len(sent)) => sent[i + 2][3] = EFS2_DIAG_FACT_IMAGE_END
                /\ Returned => result = RetFalse

(***************************************************************************)
(* C3.  In the page loop of efsread a non-empty response that has neither  *)
(* the current shape nor the legacy shape is a read error: efsread does    *)
(* not return True.  The code ignores every response whose length is not   *)
(* 0x211 or 0x811 (line 1336 has no else branch).                          *)
(***************************************************************************)
C3_OtherShapeIsError ==
    \A i \in 1..Len(heads) :
        (/\ heads[i].at = "fact_page"
         /\ heads[i].len > 0
         /\ ~IsCurrentShape(heads[i])
         /\ ~IsLegacyShape(heads[i])) => (Returned => result # RetTrue)

(***************************************************************************)
(* C4.  total = block_size * block_count * (page_size div 0x200), and      *)
(* against a device whose every page response has the current shape        *)
(* efsread sends exactly total FACT_IMAGE_READ requests in the page loop,  *)
(* after the one that fetches the header (total + 1 in all), one           *)
(* FACT_IMAGE_START, one FACT_IMAGE_END and, after the method probes (which *)
(* carry the PREP_FACT_IMAGE command byte 0x19 themselves), one            *)
(* PREP_FACT_IMAGE.                                                        *)
(***************************************************************************)
DevTotal == devHdr[1] * devHdr[2] * (devHdr[3] \div 512)

AllPagesCurrent ==
    \A i \in 1..Len(heads) : heads[i].at = "fact_page" => IsCurrentShape(heads[i])

ExportRan == Returned /\ op = "efsread" /\ NumAt("fact_end") = 1 /\ AllPagesCurrent

C4_PageCount ==
    ExportRan =>
        /\ total = DevTotal
        /\ NumAt("fact_page") = total
        /\ NumCmd(EFS2_DIAG_FACT_IMAGE_READ) = total + 1
        /\ NumAt("fact_prep") = 1
        /\ NumCmd(EFS2_DIAG_FACT_IMAGE_START) = 1
        /\ NumCmd(EFS2_DIAG_FACT_IMAGE_END) = 1

C4_Witness == ExportRan /\ total = 4 /\ result = RetTrue

\* the claim as first stated: total READ requests and one PREP request over the
\* whole export
C4_Original ==
    ExportRan =>
        /\ NumCmd(EFS2_DIAG_FACT_IMAGE_READ) = DevTotal
        /\ NumCmd(EFS2_DIAG_PREP_FACT_IMAGE) = 1
        /\ NumCmd(EFS2_DIAG_FACT_IMAGE_START) = 1
        /\ NumCmd(EFS2_DIAG_FACT_IMAGE_END) = 1

(***************************************************************************)
(* C5.  In the page loop of efsread every response that leads with 0x13,   *)
(* 0x62 and is longer than 0x200 bytes is accepted as a legacy page: its   *)
(* bytes [0x14:-4] are appended to the file, the cursor is read from       *)
(* [0x0C:0x14], and a cursor with stream_state 0 ends the loop at once     *)
(* without error.  The code accepts it only inside the length test of line *)
(* 1336, that is when its length is 0x211 or 0x811.                        *)
(***************************************************************************)
C5_LegacyAccepted ==
    [][(pc = "fact_page" /\ Len(sent') = Len(sent) + 1 /\ IsLegacyBytes(resp')) =>
           /\ outfile' = outfile \o SliceEnd(resp', 20, 4)
           /\ fefs' = CursorFromData(Slice(resp', 12, 20))
           /\ (fefs'.stream_state = 0) => (pc' = "fact_end" /\ efserr' = efserr)]_vars

(***************************************************************************)
(* C6.  Cursor threading in efsread: the first FACT_IMAGE_READ request     *)
(* carries the all-zero cursor; every later one carries, byte for byte,    *)
(* the cursor of the most recent accepted response (bytes [0x08:0x10] of   *)
(* the header response or of a current-shape page, bytes [0x0C:0x14] of an *)
(* accepted legacy page); a response that is not accepted leaves the       *)
(* cursor as it was, so the request is the previous one again.             *)
(***************************************************************************)
AcceptedLegacy(r) ==
    IsLegacyBytes(r) /\ (Len(r) - PAGE_OVERHEAD) \in {PAGE_SMALL, PAGE_LARGE}

AcceptedCurrent(r) ==
    Len(r) > 0 /\ r[1] = DIAG_SUBSYS_CMD_F /\ (Len(r) - PAGE_OVERHEAD) \in {PAGE_SMALL, PAGE_LARGE}

C6_CursorThreading ==
    [][(Len(sent') = Len(sent) + 1 /\ pc \in {"fact_first", "fact_page"}) =>
           LET rq == sent'[Len(sent')]
           IN  /\ rq[3] = EFS2_DIAG_FACT_IMAGE_READ
               /\ Len(rq) = 12
               /\ IF pc = "fact_first" THEN Slice(rq, 4, 12) = Fill(8, 0)
                  ELSE IF heads[Len(heads)].at = "fact_first" \/ AcceptedCurrent(resp)
                  THEN Slice(rq, 4, 12) = Slice(resp, 8, 16)
                  ELSE IF AcceptedLegacy(resp) THEN Slice(rq, 4, 12) = Slice(resp, 12, 20)
                  ELSE rq = sent[Len(sent)]]_vars

\* a page request that follows an accepted legacy page and one that follows a
\* response that was not accepted
C6_Witness ==
    \E i, j \in 2..Len(heads) :
        /\ heads[i].at = "fact_page" /\ heads[i - 1].at = "fact_page"
        /\ heads[i - 1].b0 = DIAG_BAD_CMD_F /\ heads[i - 1].len = PAGE_SMALL + PAGE_OVERHEAD
        /\ sent[i] # sent[i - 1]
        /\ heads[j].at = "fact_page" /\ heads[j - 1].at = "fact_page"
        /\ heads[j - 1].len = 0
        /\ Slice(sent[j], 4, 12) # Fill(8, 0)

(***************************************************************************)
(* C7.  The EFS method is stable for a session: once a probe has selected  *)
(* a method byte, every EFS request sent afterwards in the session, across *)
(* efslistdir / efsreadfile / efswritefile / efsread, carries that byte at *)
(* offset 1.  The code keeps no selection: every operation probes again,   *)
(* starting with 0x3E (lines 1428-1439, 1613-1624, 1660-1671, 1241-1252).  *)
(***************************************************************************)
C7_MethodStable ==
    sessMethod # 0 => \A i \in 1..Len(sent) : sent[i][2] = sessMethod

(***************************************************************************)
(* C8.  Each EFS operation sends the alternate probe first and the         *)
(* standard probe only when the alternate response does not lead with      *)
(* 0x4B; when neither response leads with 0x4B the operation returns a     *)
(* failure result and has sent the two probes only.  An empty response to  *)
(* the standard probe ends the operation in an IndexError instead.         *)
(***************************************************************************)
EfsOps == {"efslistdir", "efsreadfile", "efswritefile", "efsread"}

Ended == pc \in {"done", "fault"}

FailureResult == result \in {RetNone, RetFalse, RetInt(0)}

C8_ProbeOrder ==
    op \in EfsOps =>
        /\ Len(sent) >= 1 => sent[1][2] = EFS_ALTERNATE
        /\ \A i \in 1..Len(sent) :
               sent[i][2] = EFS_STANDARD => (i >= 2 /\ heads[1].b0 # DIAG_SUBSYS_CMD_F)
        /\ (Ended /\ Len(heads) >= 2 /\ heads[1].b0 # DIAG_SUBSYS_CMD_F
                  /\ heads[2].b0 # DIAG_SUBSYS_CMD_F)
               => (pc = "done" /\ FailureResult /\ Len(sent) = 2)

(***************************************************************************)
(* C9.  An empty response from send() is "no answer" to every EFS          *)
(* operation: the operation ends in a failure result (or goes on to the    *)
(* standard probe, or to the next readdir), never in an uncaught fault.    *)
(* The code indexes resp[0] or unpacks resp[4:8] of the empty response.    *)
(***************************************************************************)
C9_EmptyIsNoAnswer ==
    (op \in EfsOps /\ Len(heads) >= 1 /\ heads[Len(heads)].len = 0) => pc # "fault"

(***************************************************************************)
(* C10.  NV round trip: against a device that stores and echoes the raw    *)
(* field of every accepted write, read_nvitem(item), then write_nvitem of  *)
(* the payload just read, then read_nvitem(item) returns the first         *)
(* payload again.  unpackdata drops a non-zero last byte, so a stored raw  *)
(* value <<1, 0, ..., 0, 5>> reads as 127 bytes and then as <<1>>.         *)
(***************************************************************************)
C10_RoundTrip ==
    (/\ Len(hist) = 3
     /\ \A i \in 1..3 : hist[i].nominal
     /\ hist[1].op = "read_nvitem" /\ hist[1].result.tag = "nvitem"
     /\ hist[2].op = "write_nvitem" /\ hist[2].item = hist[1].item
     /\ hist[2].data = hist[1].result.val.data
     /\ hist[3].op = "read_nvitem" /\ hist[3].item = hist[1].item)
        => (hist[3].result.tag = "nvitem"
             /\ hist[3].result.val.data = hist[1].result.val.data)

(***************************************************************************)
(* C11.  unpackdata strips exactly the trailing run of zero bytes: its     *)
(* result is the longest prefix of d that is empty or ends in a non-zero   *)
(* byte.  The code starts idx at rlen - 1 (line 1121), so a d whose last   *)
(* byte is non-zero loses that byte.                                       *)
(***************************************************************************)
LongestPrefix(d) ==
    LET ends == {k \in 0..Len(d) : k = 0 \/ d[k] # 0}
    IN  SubSeq(d, 1, CHOOSE k \in ends : \A j \in ends : j <= k)

C11_StripsTrailingZeros ==
    (pc = "done" /\ op = "unpackdata") => result.val = LongestPrefix(arg.data)

(***************************************************************************)
(* C12.  write_nvitem and write_nvitemsub return True only if the write    *)
(* response echoes the write opcode (0x27, resp. 0x4B), the verifying read *)
(* succeeds, and the payload it returns equals the data written; when the  *)
(* write is accepted and the payload read back differs, the result is      *)
(* False.  The payload read back is the one read_nvitem / read_nvitemsub   *)
(* decodes from the verifying response.                                    *)
(***************************************************************************)
NvWrites == {"write_nvitem", "write_nvitemsub"}

WriteOpcode == IF op = "write_nvitem" THEN DIAG_NV_WRITE_F ELSE DIAG_SUBSYS_CMD_F

ReadOpcode == IF op \in {"write_nvitem", "read_nvitem"} THEN DIAG_NV_READ_F ELSE DIAG_SUBSYS_CMD_F

\* the raw field of the last response, where the operation's read decodes it
RawOfResp ==
    IF op \in {"write_nvitem", "read_nvitem"}
    THEN SubSeq(resp, 4, 3 + RAW_LEN)
    ELSE SubSeq(resp, 9, 8 + RAW_LEN)

Accepted == Len(heads) >= 1 /\ heads[1].b0 = WriteOpcode

ReadBack == Len(heads) >= 2 /\ heads[Len(heads)].b0 = ReadOpcode

IsSubWrite(rq) ==
    Len(rq) >= 8 /\ SubSeq(rq, 1, 4) = <<DIAG_SUBSYS_CMD_F, SUBSYS_NV, NV_SUB_WRITE, 0>>

C13_NoSubWriteOfIndex0 ==
    op = "write_imei" =>
        \A i \in 1..Len(sent) : IsSubWrite(sent[i]) => U(sent[i], 6, 2) # 0

(***************************************************************************)
(* C14.  read_nvitem and read_nvitemsub retry exactly once on an empty     *)
(* response: a non-empty first response leads to one request; an empty     *)
(* first response to one re-send of the identical request; when the second *)
(* response is empty too, the read returns the failure naming the item,    *)
(* and there is no third request.                                          *)
(***************************************************************************)
NvReads == {"read_nvitem", "read_nvitemsub"}

C14_RetryOnce ==
    op \in NvReads =>
        /\ Len(sent) <= 2
        /\ Len(sent) = 2 => (heads[1].len = 0 /\ sent[2] = sent[1])
        /\ pc = "done" =>
              /\ Len(sent) >= 1
              /\ heads[1].len = 0 => Len(sent) = 2
              /\ heads[Len(heads)].len = 0 => result = RetError("empty", arg.item)

C14_Witness ==
    /\ op = "read_nvitemsub" /\ pc = "done"
    /\ Len(sent) = 2 /\ heads[2].len = 0
    /\ result.tag = "empty"

(***************************************************************************)
(* C15.  read_nvitem returns success, with the decoded item, if and only   *)
(* if the final response is non-empty and leads with 0x26; a leading 0x14  *)
(* gives the invalid-parameter failure, any other leading byte a failure   *)
(* carrying that byte; read_nvitemsub does the same with leading byte 0x4B *)
(* and decodes from offset 4.                                              *)
(***************************************************************************)
C15_ReadOutcome ==
    (pc = "done" /\ op \in NvReads) =>
        LET lead == IF Len(resp) > 0 THEN resp[1] ELSE -1
            at == IF op = "read_nvitem" THEN 1 ELSE 4
            fields == IF op = "read_nvitem" THEN 2 ELSE 4
        IN  /\ result.tag = "nvitem" <=> lead = ReadOpcode
            /\ lead = ReadOpcode =>
                  result = RetItem(U(resp, at, 2), unpackdata(RawOfResp),
                                   U(resp, at + fields + RAW_LEN, 2))
            /\ (lead = DIAG_BAD_PARM_F /\ lead # ReadOpcode) => result = RetError("badparm", arg.item)
            /\ (lead \notin {-1, DIAG_BAD_PARM_F, ReadOpcode}) => result = RetError("error", lead)

C15_Witness ==
    /\ pc = "done" /\ op = "read_nvitemsub"
    /\ result.tag = "nvitem"
    /\ result.val.data = <<8, 58, 33>>


(***************************************************************************)
(* C16.  backup_nvitems reads all 65536 item ids, 0 to 0xFFFF inclusive,   *)
(* in increasing order, before it writes the backup: when the backup has   *)
(* been written, the ids read are 0 .. 0xFFFF.  The code scans             *)
(* range(0, 0xFFFF) and never reads id 0xFFFF.                             *)
(***************************************************************************)
BackupWritten == op = "backup_nvitems" /\ pc = "done" /\ result.tag = "backup"

IdsRead == 0..(pos - 1)

C16_ReadsAllIds == BackupWritten => IdsRead = 0..SCAN_END


(***************************************************************************)
(* C17.  In backup_nvitems a failed read of one id never aborts the scan:  *)
(* every later id is still read, the failure text is appended to the error *)
(* log, and the written backup list holds exactly the successfully read    *)
(* items whose status is not 5, in id order.  The list and the error log   *)
(* are as stated; the later ids are read up to 0xFFFE only (C16), so after *)
(* a failed read id 0xFFFF is still not read.                              *)
(***************************************************************************)
\* the ids the device refuses or leaves unanswered
FailingIds == devScan.bad \cup devScan.silent

\* the ids the device answers with a stored, active item
ActiveIds == DOMAIN nvStore \ FailingIds

ListExact ==
    /\ {nvitems[k].id : k \in DOMAIN nvitems} = IdsRead \cap ActiveIds
    /\ \A j, k \in DOMAIN nvitems : j < k => nvitems[j].id < nvitems[k].id

ErrorsLogged ==
    /\ {errors[k].item : k \in DOMAIN errors} = IdsRead \cap FailingIds
    /\ \A j, k \in DOMAIN errors : j < k => errors[j].item < errors[k].item

LaterIdsRead == \A k \in DOMAIN errors : (errors[k].item + 1)..SCAN_END \subseteq IdsRead

\* the list and the error log, at every point of the scan and in what is written
BackupKeepsWhatItRead ==
    /\ (op = "backup_nvitems" /\ pc = "bk_scan") => ListExact /\ ErrorsLogged
    /\ BackupWritten => /\ ListExact /\ ErrorsLogged
                        /\ result.val.file = nvitems /\ result.val.errorlog = errors

C17_FailedReadKeepsScanning == BackupKeepsWhatItRead /\ (BackupWritten => LaterIdsRead)


(***************************************************************************)
(* C18.  Against a device that answers entry_type 1 for the sequence       *)
(* numbers 1..N and entry_type 0 for N+1, efslistdir sends exactly N+1     *)
(* READDIR requests, with the sequence numbers 1, 2, ..., N+1 in this      *)
(* order, and the listing has exactly N entries.                           *)
(***************************************************************************)
IsReaddir(rq) == Len(rq) = 12 /\ rq[1] = DIAG_SUBSYS_CMD_F /\ rq[3] = EFS2_DIAG_READDIR

ReaddirSent == SelectSeq(sent, IsReaddir)

\* the device has answered every request as scripted
Scripted == odd = MaxOdd

\* the readdir loop has ended
ListingEnded ==
    /\ op = "efslistdir"
    /\ pc = "list_closedir" \/ (pc = "done" /\ result.tag = "info")

C18_ReaddirCounts ==
    (ListingEnded /\ Scripted) =>
        /\ Len(ReaddirSent) = devEntries + 1
        /\ \A k \in DOMAIN ReaddirSent : U32(ReaddirSent[k], 8) = k
        /\ Len(info) = devEntries
        /\ (pc = "done" /\ result.tag = "info") => result.val = devEntries

C18_Witness ==
    /\ ListingEnded /\ Scripted
    /\ pc = "done" /\ result.tag = "info"
    /\ devEntries = MaxEntries
    /\ Len(ReaddirSent) = MaxEntries + 1


(***************************************************************************)
(* C19.  In efsreadfile and efswritefile, once efs_open has returned a     *)
(* descriptor, an EFS CLOSE request for it is sent before the operation    *)
(* ends, on every path: also when fstat fails, when a read or write is     *)
(* rejected, and when the loop ends early.  The code leaves by an          *)
(* exception on these paths and sends no CLOSE.                            *)
(***************************************************************************)
FileOps == {"efsreadfile", "efswritefile"}

IsFstat(rq) == Len(rq) = 8 /\ rq[1] = DIAG_SUBSYS_CMD_F /\ rq[3] = EFS2_DIAG_FSTAT

IsClose(rq) == Len(rq) = 8 /\ rq[1] = DIAG_SUBSYS_CMD_F /\ rq[3] = EFS2_DIAG_CLOSE

\* efs_open has returned a descriptor: efs_fstat has been sent with it
DescriptorObtained == \E k \in DOMAIN sent : IsFstat(sent[k])

CloseSent ==
    \E k \in DOMAIN sent : IsFstat(sent[k]) /\ \E j \in (k + 1)..Len(sent) : IsClose(sent[j])

C19_CloseOnEveryPath ==
    (op \in FileOps /\ pc \in {"done", "fault"} /\ DescriptorObtained) => CloseSent


(***************************************************************************)
(* C20.  Every request built by efs_read carries the EFS read command      *)
(* (EFS2_DIAG_READ = 4) at offset 2, followed by fd, nbytes and offset; it *)
(* is never the write command (EFS2_DIAG_WRITE = 5).  The code builds the  *)
(* request with EFS2_DIAG_WRITE.                                           *)
(***************************************************************************)
\* the requests of efs_read: those sent by the read loop of efsreadfile
EfsReadSent == {k \in DOMAIN sent : heads[k].at = "rf_read"}

C20_ReadCommandByte ==
    \A k \in EfsReadSent :
        /\ Len(sent[k]) = 16
        /\ sent[k][1] = DIAG_SUBSYS_CMD_F
        /\ sent[k][3] = EFS2_DIAG_READ
        /\ sent[k][3] # EFS2_DIAG_WRITE


(***************************************************************************)
(* C21.  efsreadfile returns the number of bytes transferred: its return   *)
(* value equals the number of bytes it wrote to the local file, after a    *)
(* complete copy and after stopping on the first read failure.  The code   *)
(* never adds to num_bytes and returns 0 after every copy.                 *)
(***************************************************************************)
C21_ReturnsBytesWritten ==
    (op = "efsreadfile" /\ pc = "done" /\ result.tag = "int") => result.val = Len(localfile)


(***************************************************************************)
(* C22.  efswritefile opens the destination path on the device with write  *)
(* access (not read-only, not the local source path), sends the local      *)
(* file's bytes in write requests of at most 1024 bytes at increasing      *)
(* offsets, and returns the number of bytes transferred.  The code opens   *)
(* srcpath with O_RDONLY, and os.fstat(srcpath) raises before any write.   *)
(***************************************************************************)
\* the OPEN requests of efswritefile
WfOpenSent == {k \in DOMAIN sent : op = "efswritefile" /\ heads[k].at = "wf_open"}

\* the access mode of an OPEN request: its oflag under O_ACCMODE
AccessOf(rq) == U32(rq, 4) % (O_ACCMODE + 1)

C22_OpensForWriting == \A k \in WfOpenSent : AccessOf(sent[k]) # O_RDONLY


(***************************************************************************)
(* C23.  For every response to OPEN with a descriptor below 0 (not only    *)
(* -1), efsreadfile / efswritefile treat the open as failed: they return   *)
(* the failure value and send no fstat, read, write or close.  The code    *)
(* compares the descriptor with -1 only; any other negative descriptor is  *)
(* handed to efs_fstat, whose pack("<I", fdata) raises.                    *)
(***************************************************************************)
\* the last request was OPEN and its response carries a negative descriptor
OpenAnsweredNegative ==
    /\ op \in FileOps
    /\ heads # <<>>
    /\ heads[Len(heads)].at \in {"rf_open", "wf_open"}
    /\ CanUnpack(resp, 4, 4)
    /\ ~Rejected(resp)
    /\ S32(resp, 4) < 0

C23_NegativeDescriptorFails ==
    OpenAnsweredNegative => pc = "done" /\ result = RetInt(0)


(***************************************************************************)
(* C24.  handle_error (used by efs_rmdir, efs_unlink, efs_chown, efs_chmod *)
(* and efs_mkdir) reports the failure value -1, never 0 and never an       *)
(* undefined result, for every response whose leading byte is 0x47 or      *)
(* 0x15; so do efs_open, efs_opendir, efs_stat, efs_fstat, efs_lstat,      *)
(* efs_read and efs_write.  In the code the guard on these two bytes has   *)
(* no else branch: the helpers fall off their end and return None.         *)
(***************************************************************************)
HelperRejected ==
    /\ op \in HelperNames
    /\ pc \in {"done", "fault"}
    /\ Len(arg.resp) > 0
    /\ Rejected(arg.resp)

C24_RejectedIsFailure ==
    HelperRejected => /\ pc = "done"
                      /\ result.val.kind = "int"
                      /\ result.val.v = -1

(***************************************************************************)
(* C25.  efsdiagerror returns -1 if and only if the 32-bit code lies in    *)
(* 0x40000001..0x4000000C and 0 for every other code (0 and the non-zero   *)
(* codes outside the range included), and it changes no state.             *)
(***************************************************************************)
ErrorCodeCalled == op = "efsdiagerror" /\ pc = "done"

C25_Classification ==
    ErrorCodeCalled =>
        /\ result.tag = "int"
        /\ result.val \in {0, -1}
        /\ result.val = -1 <=> (EFS_ERR_FIRST <= arg.errcode /\ arg.errcode <= EFS_ERR_LAST)
        /\ sent = <<>> /\ efsmethod = 0 /\ sessMethod = 0

C25_Witness ==
    /\ ErrorCodeCalled
    /\ arg.errcode = EFS_ERR_LAST
    /\ result = RetInt(-1)


(***************************************************************************)
(* C26.  If the first FACT_IMAGE_READ response has leading byte 0x13, 0x14 *)
(* or 0x15, or a non-zero 32-bit error at offset 4..8, or leading byte     *)
(* 0x47, efsread returns failure, writes no byte to the output file and    *)
(* sends no further FACT_IMAGE_READ request.                               *)
(***************************************************************************)
IsFactRead(rq) ==
    Len(rq) = 12 /\ rq[1] = DIAG_SUBSYS_CMD_F /\ rq[3] = EFS2_DIAG_FACT_IMAGE_READ

\* the last request was the first FACT_IMAGE_READ and resp is its response
FirstReadAnswered == op = "efsread" /\ heads # <<>> /\ heads[Len(heads)].at = "fact_first"

FirstReadRejected ==
    /\ FirstReadAnswered
    /\ Len(resp) > 0
    /\ \/ resp[1] \in {DIAG_BAD_CMD_F, DIAG_BAD_PARM_F, DIAG_BAD_LEN_F, DIAG_BAD_SEC_MODE_F}
       \/ (CanUnpack(resp, 4, 4) /\ U32(resp, 4) # 0)

IsFactStage(rq) ==
    /\ rq[1] = DIAG_SUBSYS_CMD_F
    /\ rq[3] \in {EFS2_DIAG_FACT_IMAGE_START, EFS2_DIAG_FACT_IMAGE_READ, EFS2_DIAG_FACT_IMAGE_END}

\* PREP_FACT_IMAGE has been sent and got no response
PrepUnanswered ==
    /\ op = "efsread"
    /\ \E k \in DOMAIN heads : heads[k].at = "fact_prep" /\ heads[k].len = 0

C29_PrepNonResponseIsFatal ==
    PrepUnanswered =>
        /\ pc = "done"
        /\ result = RetFalse
        /\ SelectSeq(sent, IsFactStage) = <<>>
        /\ heads[Len(heads)].at = "fact_prep"

C29_Witness ==
    /\ PrepUnanswered
    /\ pc = "done" /\ result = RetFalse
    /\ sent[Len(sent)] = PrepReq(efsmethod)


(***************************************************************************)
(* C27.  write_imei writes the IMEIs in list order: the first IMEI as flat *)
(* item 550, and the k-th subsequent IMEI (k = 1, 2, ...) as sub-item 550  *)
(* with index k, the indexes increasing by one, whether or not earlier     *)
(* writes succeeded.                                                       *)
(***************************************************************************)
IsFlatWrite(rq) == Len(rq) = 3 + RAW_LEN + 2 /\ rq[1] = DIAG_NV_WRITE_F

FlatWrites == SelectSeq(sent, IsFlatWrite)

SubWrites == SelectSeq(sent, IsSubWrite)

SubIndex(rq) == U(rq, 6, 2)

ImeiWritten == op = "write_imei" /\ pc = "done"

C27_ImeiOrder ==
    ImeiWritten =>
        /\ IsFlatWrite(sent[1])
        /\ FlatWrites = <<NvReq(DIAG_NV_WRITE_F, IMEI_ITEM, PadRaw(convertimei(arg.imeis[1])), 0)>>
        /\ \A k \in 1..(Len(arg.imeis) - 1) :
            /\ Cardinality({j \in DOMAIN SubWrites : SubIndex(SubWrites[j]) = k}) = 1
            /\ \E j \in DOMAIN SubWrites :
                SubWrites[j] = NvSubReq(NV_SUB_WRITE, IMEI_ITEM, k,
                                        PadRaw(convertimei(arg.imeis[k + 1])), 0)
        /\ \A j \in 1..(Len(SubWrites) - 1) :
            SubIndex(SubWrites[j + 1]) = SubIndex(SubWrites[j]) + 1
        /\ \A j \in DOMAIN SubWrites : SubIndex(SubWrites[j]) < Len(arg.imeis)

\* three IMEIs, the flat write of the first one rejected
C27_Witness ==
    /\ ImeiWritten
    /\ Len(arg.imeis) = 3
    /\ heads[1].b0 # DIAG_NV_WRITE_F
    /\ \E j \in DOMAIN SubWrites : SubIndex(SubWrites[j]) = 2


(***************************************************************************)
(* C28.  convertimei, for every 15-digit IMEI d0 d1 ... d14, produces a    *)
(* packed buffer whose first nibble is the A marker and whose subsequent   *)
(* bytes are the pairwise-swapped digit nibbles.  As the code packs it:    *)
(* the buffer is the byte 0x08, then a byte with d0 in the high nibble and *)
(* the A marker in the low nibble, then for i = 1, 3, ..., 13 a byte with  *)
(* d[i+1] in the high nibble and d[i] in the low nibble; nine bytes.       *)
(***************************************************************************)
A_MARKER == 10

ImeiConverted == op = "convertimei" /\ pc = "done"

\* digit i of the IMEI, counted from 0 as in the code
Digit(i) == arg.imei[i + 1]

\* byte j of the buffer, counted from 0
Packed(j) == result.val[j + 1]

SwappedPairs ==
    \A k \in 1..7 : /\ Packed(k + 1) \div 16 = Digit(2 * k)
                    /\ Packed(k + 1) % 16 = Digit(2 * k - 1)

C28_PackedImei ==
    ImeiConverted =>
        /\ Len(result.val) = 9
        /\ Packed(0) = IMEI_LEAD
        /\ Packed(1) \div 16 = Digit(0)
        /\ Packed(1) % 16 = A_MARKER
        /\ SwappedPairs

C28_Witness ==
    /\ ImeiConverted
    /\ arg.imei = <<3, 5, 7, 9, 1, 3, 5, 7, 9, 1, 3, 5, 7, 9, 1>>
    /\ result.val = <<8, 58, 117, 25, 83, 151, 49, 117, 25>>

\* the claim as first stated: the first nibble of the buffer is the A marker
C28_Original ==
    ImeiConverted => (Packed(0) \div 16 = A_MARKER /\ SwappedPairs)


(***************************************************************************)
(* C30.  For a file of fstat size S > 0 on a device that echoes the        *)
(* requested offset and answers every read, efsreadfile sends exactly      *)
(* ceil(S / 1024) read requests, the i-th (from 0) asking for              *)
(* min(1024, S - 1024 * i) bytes at offset 1024 * i: no request exceeds    *)
(* 1024 bytes and the lengths sum to S.  After the first failing read no   *)
(* further read request is sent.                                           *)
(***************************************************************************)
\* the length and the offset a read request asks for
AskedLen(k) == U32(sent[k], 8)

AskedOffset(k) == U32(sent[k], 12)

\* the device has answered read k with the bytes asked for
ReadAnswered(k) == heads[k].b0 = DIAG_SUBSYS_CMD_F /\ heads[k].len = 20 + AskedLen(k)

\* the number of reads sent before read k
ReadsBefore(k) == Cardinality({j \in EfsReadSent : j < k})

RECURSIVE SumAsked(_)
SumAsked(ks) ==
    IF ks = {} THEN 0
    ELSE LET k == CHOOSE x \in ks : TRUE IN AskedLen(k) + SumAsked(ks \ {k})

\* the read loop has run to its end with every read answered
CopyComplete ==
    /\ op = "efsreadfile"
    /\ pc = "rf_close" \/ (pc \in {"done", "fault"} /\ heads[Len(heads)].at = "rf_close")
    /\ \A k \in EfsReadSent : ReadAnswered(k)

C30_Chunking ==
    op = "efsreadfile" =>
        /\ \A k \in EfsReadSent :
            /\ AskedOffset(k) = FS_DIAG_MAX_READ_REQ * ReadsBefore(k)
            /\ AskedLen(k) = Min(FS_DIAG_MAX_READ_REQ, size - FS_DIAG_MAX_READ_REQ * ReadsBefore(k))
            /\ AskedLen(k) > 0
            /\ ~ReadAnswered(k) => \A j \in EfsReadSent : j <= k
        /\ CopyComplete =>
            /\ size > 0
            /\ Cardinality(EfsReadSent) = (size + FS_DIAG_MAX_READ_REQ - 1) \div FS_DIAG_MAX_READ_REQ
            /\ SumAsked(EfsReadSent) = size

C30_Witness ==
    /\ CopyComplete
    /\ pc = "done"
    /\ size = 1030
    /\ Cardinality(EfsReadSent) = 2

\* a failing first read of a file of two chunks ends the reads
FailedFirstReadSeen ==
    /\ op = "efsreadfile"
    /\ pc \in {"done", "fault"}
    /\ size = 2048
    /\ Cardinality(EfsReadSent) = 1
    /\ \E k \in EfsReadSent : ~ReadAnswered(k)


(***************************************************************************)
(* C31.  efsreadfile sends no read request when fstat reports size 0 or    *)
(* when the access bits of the mode (mode & 3) equal WRONLY: in both cases *)
(* it closes the descriptor and returns 0, and the local file is neither   *)
(* created nor written.                                                    *)
(***************************************************************************)
\* the last request was FSTAT and its response reports an empty or a
\* write-only file
FstatRefuses ==
    /\ op = "efsreadfile"
    /\ heads # <<>>
    /\ heads[Len(heads)].at = "rf_fstat"
    /\ efs_fstat(resp).kind = "list"
    /\ \/ efs_fstat(resp).v.size = 0
       \/ efs_fstat(resp).v.mode % (O_ACCMODE + 1) = O_WRONLY

\* the CLOSE that follows has been sent
ClosedAfterRefusal ==
    op = "efsreadfile" /\ heads # <<>> /\ heads[Len(heads)].at = "rf_close0"

\* the part that holds: no read request, no local file, the CLOSE carries
\* the descriptor, and 0 is returned when the CLOSE is answered
RefusalSendsNoRead ==
    /\ FstatRefuses <=> (op = "efsreadfile" /\ pc = "rf_close0")
    /\ (FstatRefuses \/ ClosedAfterRefusal) => (EfsReadSent = {} /\ localfile = <<>>)
    /\ ClosedAfterRefusal =>
        /\ sent[Len(sent)] = CloseReq(efsmethod, fdata)
        /\ CanUnpack(resp, 4, 4) => (pc = "done" /\ result = RetInt(0))

C31_NoReadOfEmptyOrWriteOnly ==
    /\ RefusalSendsNoRead
    /\ ClosedAfterRefusal => (pc = "done" /\ result = RetInt(0))


(***************************************************************************)
(* C32.  write_nvitem and write_nvitemsub send the verifying read of the   *)
(* same item (and index) immediately after, and only after, a write        *)
(* response that echoes the write opcode; when the write response is empty *)
(* or has another leading byte, no verifying read is sent and the result   *)
(* is not True.                                                            *)
(***************************************************************************)
\* the read request that verifies the write of the running operation
VerifyingRead ==
    IF op = "write_nvitem"
    THEN NvReq(DIAG_NV_READ_F, arg.item, Fill(RAW_LEN, 0), 0)
    ELSE NvSubReq(NV_SUB_READ, arg.item, index, Fill(RAW_LEN, 0), 0)

\* the write request itself
WriteRequest ==
    IF op = "write_nvitem"
    THEN NvReq(DIAG_NV_WRITE_F, arg.item, PadRaw(arg.data), 0)
    ELSE NvSubReq(NV_SUB_WRITE, arg.item, index, PadRaw(arg.data), 0)

VerifyPending == pc \in {"nv_verify", "nvsub_verify"}

C32_VerifyOnlyAfterEcho ==
    (op \in NvWrites /\ sent # <<>>) =>
        /\ sent[1] = WriteRequest
        /\ \A k \in 2..Len(sent) : sent[k] = VerifyingRead
        /\ Accepted => (IF Len(sent) = 1 THEN VerifyPending ELSE ~VerifyPending)
        /\ ~Accepted => /\ Len(sent) = 1
                        /\ pc = "done"
                        /\ result # RetTrue

\* an echoed sub-item write followed by its read, and a refused flat write
C32_Witness ==
    /\ op = "write_nvitemsub" /\ index = 1
    /\ Accepted
    /\ Len(sent) = 2 /\ sent[2] = VerifyingRead
    /\ pc = "done" /\ result = RetTrue

WriteRefusedSeen ==
    /\ op = "write_nvitem" /\ pc = "done"
    /\ Len(sent) = 1 /\ heads[1].len > 0 /\ ~Accepted
    /\ result = RetNone


(***************************************************************************)
(* C33.  efslistdir: when efs_opendir succeeds, exactly one CLOSEDIR is    *)
(* sent, after the last READDIR and before efslistdir ends, and it carries *)
(* the handle that opendir returned; when efs_opendir fails, neither       *)
(* READDIR nor CLOSEDIR is sent.  The code leaves the readdir loop by an   *)
(* exception, without CLOSEDIR, on a response shorter than the nine        *)
(* fields of a directory entry (line 1451).                                *)
(***************************************************************************)
OpendirAt == {k \in DOMAIN sent : heads[k].at = "list_opendir"}

ReaddirAt == {k \in DOMAIN sent : heads[k].at = "list_readdir"}

ClosedirAt == {k \in DOMAIN sent : heads[k].at = "list_closedir"}

\* the last request was OPENDIR and efs_opendir returns a handle for its
\* response
OpendirSucceeded ==
    /\ op = "efslistdir"
    /\ heads # <<>>
    /\ heads[Len(heads)].at = "list_opendir"
    /\ efs_opendir(resp).kind = "int"
    /\ efs_opendir(resp).v # -1

\* the part that holds: READDIR and CLOSEDIR only after a successful
\* OPENDIR, and on the returning path one CLOSEDIR, sent last, with the
\* handle of the first READDIR
ClosedirWhenReturning ==
    op = "efslistdir" =>
        /\ (heads # <<>> /\ heads[Len(heads)].at = "list_opendir") =>
              (OpendirSucceeded <=> pc = "list_readdir")
        /\ (ReaddirAt \cup ClosedirAt # {}) =>
              \E o \in OpendirAt : \A k \in ReaddirAt \cup ClosedirAt : o < k
        /\ (pc = "done" /\ ReaddirAt # {}) =>
              /\ ClosedirAt = {Len(sent)}
              /\ sent[Len(sent)] =
                    ClosedirReq(efsmethod, U32(sent[CHOOSE k \in ReaddirAt :
                                                     \A j \in ReaddirAt : k <= j], 4))

C33_OneClosedir ==
    /\ ClosedirWhenReturning
    /\ (op = "efslistdir" /\ pc \in {"done", "fault"} /\ ReaddirAt # {}) =>
          ClosedirAt = {Len(sent)}


(***************************************************************************)
(* C34.  In efsread the FactoryHeader and total are fixed by the first     *)
(* FACT_IMAGE_READ response: no later page response changes block_size,    *)
(* block_count, page_size or total; a page response changes only the       *)
(* cursor and the output file.                                             *)
(***************************************************************************)
\* the header the device serves in its first response
DevHeader == [block_size |-> devHdr[1], page_size |-> devHdr[3], block_count |-> devHdr[2]]

\* the first response has been accepted: the page loop runs or has run
PagePhase ==
    \/ pc \in {"fact_page", "fact_end"}
    \/ pc = "done" /\ NumAt("fact_end") > 0

C34_HeaderFixed ==
    /\ [](PagePhase => (fh = DevHeader /\ total = TotalPages(fh)))
    /\ [][pc = "fact_page" =>
            /\ fh' = fh
            /\ total' = total
            /\ UNCHANGED <<fileOpen, efsmethod, result>>
            /\ (fefs' # fefs \/ outfile' # outfile) => Len(heads') = Len(heads) + 1]_vars

\* two page responses have moved the cursor and grown the file under the
\* header of the first response
C34_Witness ==
    /\ pc = "fact_page"
    /\ page = 2
    /\ total > 2
    /\ fh = DevHeader
    /\ fefs.cluster_data_seqno = 3
    /\ Len(outfile) > 2 * PAGE_SMALL


(***************************************************************************)
(* C35.  The factory image file is append-only, byte for byte: after any   *)
(* prefix of the export its content is the concatenation, in response      *)
(* order, of the payload slices of the accepted responses (bytes [0x10:-1] *)
(* of the first response, [0x10:0x10+dlen] of a current-shape page,        *)
(* [0x14:-4] of a legacy page); a rejected or ignored response adds no     *)
(* byte.  Accepted is what lines 1291-1303 and 1335-1341 accept.           *)
(***************************************************************************)
\* the first response passes the tests of lines 1291-1303
FirstPasses(r) ==
    /\ CanUnpack(r, 4, 4)
    /\ r[1] \notin {DIAG_BAD_CMD_F, DIAG_BAD_PARM_F, DIAG_BAD_LEN_F, DIAG_BAD_SEC_MODE_F}
    /\ U32(r, 4) = 0

\* the bytes that the response r to a request sent at step s adds to the file
PayloadOf(s, r) ==
    IF s = "fact_first"
    THEN IF FirstPasses(r) THEN SubSeq(r, 17, Len(r) - 1) ELSE <<>>
    ELSE IF s = "fact_page"
    THEN IF AcceptedCurrent(r) THEN SubSeq(r, 17, Len(r) - 1)
         ELSE IF AcceptedLegacy(r) THEN SubSeq(r, 21, Len(r) - 4)
         ELSE <<>>
    ELSE <<>>

C35_FileIsConcatenation ==
    /\ [](NumAt("fact_first") = 0 => outfile = <<>>)
    /\ [][IF Len(sent') = Len(sent) + 1
          THEN outfile' = outfile \o PayloadOf(pc, resp')
          ELSE outfile' = outfile \/ sent' = <<>>]_vars

\* header payload, one current page and one legacy page in the file, after
\* an ignored response
C35_Witness ==
    /\ pc = "fact_page"
    /\ \E k \in DOMAIN heads : heads[k].at = "fact_page" /\ heads[k].len = 0
    /\ \E k \in DOMAIN heads : heads[k].at = "fact_page" /\ IsCurrentShape(heads[k])
    /\ heads[Len(heads)].at = "fact_page"
    /\ AcceptedLegacy(resp)
    /\ Len(outfile) = 2 * PAGE_SMALL + (Len(resp) - LEGACY_DATA_OFFSET - LEGACY_TRAILER)


(***************************************************************************)
(* C36.  enter_saharamode returns True exactly when the device             *)
(* acknowledged the switch command (leading byte 0x4B of the response),    *)
(* whatever enabled_print is, and disconnects the channel on every path.   *)
(* The code assigns success only under enabled_print, and True in both     *)
(* branches (lines 907-913).                                               *)
(***************************************************************************)
SwitchAcknowledged == Len(resp) > 0 /\ resp[1] = DIAG_SUBSYS_CMD_F

C36_SaharaResult ==
    (op = "enter_saharamode" /\ pc \in {"done", "fault"}) =>
        /\ (result = RetTrue) <=> SwitchAcknowledged
        /\ ~connected


(***************************************************************************)
(* C37.  Against a device that stores and echoes accepted writes,          *)
(* write_nvitem(item, data) returns True for every payload of length 1 to  *)
(* 128, payloads whose last byte is 0x00 and full 128-byte payloads whose  *)
(* last byte is non-zero included.  The verifying read strips the padding  *)
(* and every trailing 0x00 of the payload with it, so the comparison of    *)
(* line 1208 fails for such a payload.                                     *)
(***************************************************************************)
C37_WriteAnyPayload ==
    (/\ op = "write_nvitem" /\ pc = "done"
     /\ Scripted
     /\ Len(arg.data) \in 1..RAW_LEN) => result = RetTrue


(***************************************************************************)
(* C38.  backup_nvitems is read-only: every request it sends has opcode    *)
(* 0x26 (NV read); it never sends 0x27, a subsystem NV write or an EFS     *)
(* request.                                                                *)
(***************************************************************************)
C38_BackupReadsOnly ==
    op = "backup_nvitems" =>
        /\ \A k \in DOMAIN sent :
              /\ sent[k][1] = DIAG_NV_READ_F
              /\ sent[k] = NvReq(DIAG_NV_READ_F, U(sent[k], 1, 2), Fill(RAW_LEN, 0), 0)
              /\ U(sent[k], 1, 2) = pos - 1
        /\ nvStore = [i \in NvItems |-> IF i = IMEI_ITEM THEN PadRaw(<<8, 58, 33>>)
                                                          ELSE PadRaw(<<>>)]

\* the scan has read the stored item 550 and, twice, the silent item 551
C38_Witness ==
    /\ op = "backup_nvitems" /\ pc = "bk_scan"
    /\ pos = 552
    /\ Len(sent) = 2
    /\ sent[1][1] = DIAG_NV_READ_F
    /\ \E e \in DOMAIN nvitems : nvitems[e].id = IMEI_ITEM


(***************************************************************************)
(* C39.  efsread terminates with a bounded number of requests: after the   *)
(* header response at most total further FACT_IMAGE_READ requests are sent *)
(* (at most total + 1 in all), then one FACT_IMAGE_END, and efsread        *)
(* returns.                                                                *)
(***************************************************************************)
\* the counts of the requests of one run
RequestsBounded ==
    op = "efsread" =>
        /\ NumAt("fact_first") <= 1
        /\ NumAt("fact_page") <= DevTotal
        /\ NumCmd(EFS2_DIAG_FACT_IMAGE_READ) <= DevTotal + 1
        /\ NumAt("fact_end") <= 1
        /\ Len(sent) <= DevTotal + 6
        /\ NumAt("fact_end") = 1 =>
              (heads[Len(heads)].at = "fact_end" /\ pc = "done")
        /\ PagePhase => (total = DevTotal /\ page <= total)

\* the number of steps efsread can still take
StepsLeft ==
    CASE pc = "idle" -> DevTotal + 7
      [] pc = "fact_probe_std" -> DevTotal + 6
      [] pc = "fact_prep" -> DevTotal + 5
      [] pc = "fact_start" -> DevTotal + 4
      [] pc = "fact_first" -> DevTotal + 3
      [] pc = "fact_page" -> (total - page) + 1
      [] pc = "fact_end" -> 1
      [] OTHER -> 0

\* every step sends one request and brings the end nearer, and a run that has
\* not ended can take a step; once the header is accepted the run ends
\* with END and a result
C39_BoundedExport ==
    /\ [](RequestsBounded /\ StepsLeft >= 0 /\ (Ended \/ ENABLED NextFact))
    /\ [](PagePhase => (pc = "done" <=> NumAt("fact_end") = 1))
    /\ [][/\ StepsLeft' < StepsLeft
          /\ Len(sent') = Len(sent) + 1
          /\ (PagePhase /\ pc' = "done") => result' \in {RetTrue, RetFalse}]_vars

\* a run of 1 + total reads that ended with END
C39_Witness ==
    /\ op = "efsread" /\ pc = "done"
    /\ total = 4
    /\ NumCmd(EFS2_DIAG_FACT_IMAGE_READ) = 5
    /\ heads[Len(heads)].at = "fact_end"
    /\ \E k \in DOMAIN heads : heads[k].at = "fact_page" /\ heads[k].len = 0


(***************************************************************************)
(* C40.  backup_nvitems behaves the same for both values of enabled_print: *)
(* it performs the full scan and writes the backup file without an         *)
(* uncaught fault.  With enabled_print True the name print is an           *)
(* unassigned local when line 1094 calls it (UnboundLocalError).           *)
(***************************************************************************)
C40_BackupEitherSwitch ==
    op = "backup_nvitems" =>
        /\ pc # "fault"
        /\ pc \in {"bk_scan", "done"}
        /\ pc = "done" => BackupWritten

====
